---------------------------- MODULE Spec2Model ----------------------------
(***************************************************************************)
(* A model of the devscope context gatherer: the query analyzer, the       *)
(* result ranker, the result aggregator, the orchestrator                  *)
(* gatherDeveloperContext, the tool-invocation handler, the LRUCache and   *)
(* withRetry.                                                              *)
(*                                                                         *)
(* Conventions.                                                            *)
(*  - A JavaScript string is a sequence of one-character strings, so that  *)
(*    includes, split, substring and the regular expressions are computed  *)
(*    character by character.                                              *)
(*  - An optional field (x?: T) is <<>> when undefined and <<v>> when it   *)
(*    holds v.                                                             *)
(*  - Positions of regular expressions (lastIndex) are 0-based as in       *)
(*    JavaScript; s[p + 1] is the character at position p.                 *)
(*  - finalScore is kept as 200 times its value, an integer: the weights   *)
(*    are hundredths and the community score is a multiple of one half.    *)
(***************************************************************************)
EXTENDS Integers, Sequences, FiniteSets, TLC

VARIABLES
  \* ResultRanker (src/src/core/ranker.ts)
  query,            \* the query the ranker was constructed with (as given)
  problemType,      \* <<>> or <<type>>: the ranker's optional problem type
  filters,          \* the parsed config/filters.json
  results,          \* the NormalizedResult[] handed to rankResults
  ranked,           \* what rankResults returned
  rankPc,           \* "ready" | "ranked"
  \* ResultAggregator (src/src/tools/gatherContext.ts 279-440)
  aggInput,         \* the RankedResult[] handed to aggregateResults
  aggIncomplete,    \* the incompleteSources argument
  aggResult,        \* <<>> or <<GatherContextResult>>
  \* QueryAnalyzer (src/src/tools/gatherContext.ts 485-861)
  lastIndex,        \* lastIndex of the RegExp objects the instance keeps
  analyzed,         \* <<>> or <<the query of the latest analyze call>>
  analysis,         \* <<>> or <<its QueryAnalysis>>
  calls,            \* number of analyze calls made on the instance
  \* gatherDeveloperContext (src/src/tools/gatherContext.ts 130-278) and the
  \* handler of tool calls (src/src/index.ts 88-127)
  cache,            \* the Map of the LRUCache, in insertion order
  now,              \* Date.now(), in milliseconds
  maxSize,          \* the maxSize of the LRUCache
  ttl,              \* the ttl of the LRUCache, in milliseconds
  cacheLog,         \* the calls made on an LRUCache under test, in order
  request,          \* <<>> or <<the name and arguments of the tool call>>
  heap,             \* the bundle objects built so far
  pc,               \* "idle" | "fetching" | "done": the request under way
  caller,           \* who called gatherDeveloperContext: "tool" | "direct"
  options,          \* <<>> or <<the SearchOptions of the request>>
  tasks,            \* the search promise pushed for each source
  fetched,          \* what performSearch of each source did
  incompleteSources,\* the array the .catch handlers push to
  outcome,          \* <<>> or <<how the promise of the request settled>>
  response,         \* <<>> or <<what the handler gave its caller>>
  requests,         \* number of requests made
  \* withRetry (src/unnamed/part_001 29-54)
  retryPc,          \* "idle" | "calling" | "waiting" | "done"
  maxRetries,       \* the maxRetries argument
  attempt,          \* the loop counter
  lastError,        \* <<>> or <<the failure last caught>>
  retryOutcome,     \* <<>> or <<how the promise of withRetry settled>>
  retryTrace        \* what happened since the call, in order

rankVars == <<query, problemType, filters, results, ranked, rankPc>>
aggVars == <<aggInput, aggIncomplete, aggResult>>
analyzerVars == <<lastIndex, analyzed, analysis, calls>>
cacheVars == <<cache, now, maxSize, ttl, cacheLog>>
requestVars == <<heap, pc, caller, options, request, tasks, fetched, incompleteSources,
                 outcome, response, requests>>
retryVars == <<retryPc, maxRetries, attempt, lastError, retryOutcome, retryTrace>>
gatherVars == <<cacheVars, requestVars, retryVars>>
vars == <<rankVars, aggVars, analyzerVars, gatherVars>>

-----------------------------------------------------------------------------
(* Bounds of the model. *)

\* rankResults is checked on every list of at most MaxResults results.
MaxResults == 3

-----------------------------------------------------------------------------
(* Strings. *)

Min(a, b) == IF a < b THEN a ELSE b
Max(a, b) == IF a > b THEN a ELSE b

Digit == {"0", "1", "2", "3", "4", "5", "6", "7", "8", "9"}
\* \s of a regular expression, and what String.prototype.trim strips.
WhiteSpace == {" ", "\n", "\t"}

\* The lower-case letter of each upper-case letter.
LowerOf ==
  LET upper == <<"A", "B", "C", "D", "E", "F", "G", "H", "I", "J", "K", "L", "M",
                 "N", "O", "P", "Q", "R", "S", "T", "U", "V", "W", "X", "Y", "Z">>
      lower == <<"a", "b", "c", "d", "e", "f", "g", "h", "i", "j", "k", "l", "m",
                 "n", "o", "p", "q", "r", "s", "t", "u", "v", "w", "x", "y", "z">>
  IN [c \in {upper[k] : k \in 1..26} |-> lower[CHOOSE k \in 1..26 : upper[k] = c]]

RECURSIVE ToLowerCase(_)
\* String.prototype.toLowerCase.
ToLowerCase(s) ==
  IF s = <<>> THEN <<>>
  ELSE <<IF Head(s) \in DOMAIN LowerOf THEN LowerOf[Head(s)] ELSE Head(s)>>
       \o ToLowerCase(Tail(s))

\* s.substring(from, to) with 0-based from (inclusive) and to (exclusive).
Substring(s, from, to) ==
  LET f == Min(Max(from, 0), Len(s))
      t == Min(Max(to, 0), Len(s))
  IN SubSeq(s, Min(f, t) + 1, Max(f, t))

\* Whether sub occurs in s at 0-based position p.
OccursAt(s, sub, p) ==
  /\ p + Len(sub) <= Len(s)
  /\ \A k \in 1..Len(sub) : s[p + k] = sub[k]

\* String.prototype.includes: the empty string is included in every string.
Includes(s, sub) == \E p \in 0..Len(s) : OccursAt(s, sub, p)

RECURSIVE Concat(_)
\* The concatenation of a sequence of strings.
Concat(ss) == IF ss = <<>> THEN <<>> ELSE Head(ss) \o Concat(Tail(ss))

RECURSIVE Join(_, _)
\* Array.prototype.join.
Join(ss, sep) ==
  IF ss = <<>> THEN <<>>
  ELSE IF Len(ss) = 1 THEN ss[1]
  ELSE ss[1] \o sep \o Join(Tail(ss), sep)

RECURSIVE SplitFrom(_, _, _)
\* The pieces of s from 0-based position p on, cur being the piece under way:
\* every maximal run of white space is one separator.
SplitFrom(s, p, cur) ==
  IF p >= Len(s) THEN <<cur>>
  ELSE IF s[p + 1] \in WhiteSpace
       THEN LET q == CHOOSE e \in (p + 1)..Len(s) :
                       /\ \A k \in (p + 1)..e : s[k] \in WhiteSpace
                       /\ (e = Len(s) \/ s[e + 1] \notin WhiteSpace)
            IN <<cur>> \o SplitFrom(s, q, <<>>)
       ELSE SplitFrom(s, p + 1, Append(cur, s[p + 1]))

\* s.split(/\s+/): leading or trailing white space yields an empty piece, and
\* the empty string splits into one empty piece.
SplitWhitespace(s) == SplitFrom(s, 0, <<>>)

\* String.prototype.trim.
Trim(s) ==
  IF \A k \in 1..Len(s) : s[k] \in WhiteSpace THEN <<>>
  ELSE LET a == CHOOSE i \in 1..Len(s) :
                  s[i] \notin WhiteSpace /\ \A k \in 1..(i - 1) : s[k] \in WhiteSpace
           b == CHOOSE j \in 1..Len(s) :
                  s[j] \notin WhiteSpace /\ \A k \in (j + 1)..Len(s) : s[k] \in WhiteSpace
       IN SubSeq(s, a, b)

\* The elements of a sequence, and the sequence without its repetitions in
\* order of first occurrence ([...new Set(xs)]).
Range(xs) == {xs[i] : i \in 1..Len(xs)}

RECURSIVE Unique(_)
Unique(xs) ==
  IF xs = <<>> THEN <<>>
  ELSE LET init == Unique(SubSeq(xs, 1, Len(xs) - 1))
           last == xs[Len(xs)]
       IN IF last \in Range(init) THEN init ELSE Append(init, last)

-----------------------------------------------------------------------------
(* Regular expressions.                                                    *)
(*                                                                         *)
(* A RegExp is a record [alts, ignoreCase, prefix]: alts is the sequence   *)
(* of its top-level alternatives, each a sequence of atoms; an atom is     *)
(* [cls, min, max, group]: a character class repeated min..max times       *)
(* (greedy), or, when group is not empty, an optional group (?:...)? of    *)
(* atoms. prefix[k] is the number of leading atoms of alternative k before *)
(* capture group 1 (0 when the expression has no group, or the group is    *)
(* the whole match).                                                       *)
(***************************************************************************)

Chr(c) == [cls |-> {c}, min |-> 1, max |-> 1, group |-> <<>>]
Lit(str) == <<>> \o [i \in 1..Len(str) |-> Chr(str[i])]
\* cls repeated min..max times; max = -1 when there is no upper limit.
Rep(cls, min, max) == [cls |-> cls, min |-> min, max |-> max, group |-> <<>>]
OneOrMore(cls) == Rep(cls, 1, -1)
ZeroOrMore(cls) == Rep(cls, 0, -1)
Optional(c) == Rep({c}, 0, 1)
OptGroup(atoms) == [cls |-> {}, min |-> 0, max |-> 0, group |-> atoms]
RegExp(alts, ic, prefix) == [alts |-> alts, ignoreCase |-> ic, prefix |-> prefix]
\* /word/gi and /a|b|c/gi
Word(str) == RegExp(<<Lit(str)>>, TRUE, <<0>>)
AnyOf(strs) ==
  RegExp([i \in 1..Len(strs) |-> Lit(strs[i])], TRUE, [i \in 1..Len(strs) |-> 0])

RECURSIVE RunLength(_, _, _, _)
\* How many characters of s from position p on lie in cls, at most max.
RunLength(cls, s, p, max) ==
  IF max = 0 \/ p >= Len(s) \/ s[p + 1] \notin cls THEN 0
  ELSE 1 + RunLength(cls, s, p + 1, max - 1)

RECURSIVE MatchAtoms(_, _, _)
RECURSIVE TryCounts(_, _, _, _, _)
\* The end position of the backtracking match of atoms against s at position
\* p (the position after the last matched character), or -1.
MatchAtoms(atoms, s, p) ==
  IF atoms = <<>> THEN p
  ELSE LET a == Head(atoms)
           rest == Tail(atoms)
       IN IF a.group # <<>>
          THEN LET r == MatchAtoms(a.group \o rest, s, p)
               IN IF r # -1 THEN r ELSE MatchAtoms(rest, s, p)
          ELSE TryCounts(a.min, RunLength(a.cls, s, p, a.max), rest, s, p)

\* A greedy quantifier: n repetitions first, then fewer, down to min.
TryCounts(min, n, rest, s, p) ==
  IF n < min THEN -1
  ELSE LET r == MatchAtoms(rest, s, p + n)
       IN IF r # -1 THEN r ELSE TryCounts(min, n - 1, rest, s, p)

RECURSIVE MatchAlts(_, _, _, _)
\* The first alternative, from alternative k on, that matches at p.
MatchAlts(alts, k, s, p) ==
  IF k > Len(alts) THEN -1
  ELSE LET r == MatchAtoms(alts[k], s, p)
       IN IF r # -1 THEN r ELSE MatchAlts(alts, k + 1, s, p)

RECURSIVE Search(_, _, _)
\* The leftmost match of re in s at or after position p: [start, end], or
\* [start |-> -1, end |-> -1].
Search(re, s, p) ==
  IF p > Len(s) THEN [start |-> -1, end |-> -1]
  ELSE LET e == MatchAlts(re.alts, 1, s, p)
       IN IF e # -1 THEN [start |-> p, end |-> e] ELSE Search(re, s, p + 1)

\* The text re is matched against: an ignoreCase expression is written in
\* lower case and compared with the lowered text.
Subject(re, s) == IF re.ignoreCase THEN ToLowerCase(s) ELSE s

\* The alternative of re that matches subj at start: the first that does.
FirstAlternative(re, subj, start) ==
  CHOOSE k \in 1..Len(re.alts) :
    /\ MatchAtoms(re.alts[k], subj, start) # -1
    /\ \A j \in 1..(k - 1) : MatchAtoms(re.alts[j], subj, start) = -1

\* Where capture group 1 of alternative alt starts in a match at start.
GroupStart(re, subj, start, alt) ==
  IF re.prefix[alt] = 0 THEN start
  ELSE MatchAtoms(SubSeq(re.alts[alt], 1, re.prefix[alt]), subj, start)

\* m[1] || m[0]
GroupOrMatch(m1, m0) == IF m1 # <<>> THEN m1 ELSE m0

\* What exec returns, hit being the leftmost match at or after lastIndex.
ExecResult(re, s, subj, hit) ==
  IF hit.start = -1
  THEN [found |-> FALSE, match |-> <<>>, group |-> <<>>, lastIndex |-> 0]
  ELSE [found |-> TRUE,
        match |-> Substring(s, hit.start, hit.end),
        group |-> GroupOrMatch(
                    Substring(s, GroupStart(re, subj, hit.start,
                                            FirstAlternative(re, subj, hit.start)),
                              hit.end),
                    Substring(s, hit.start, hit.end)),
        lastIndex |-> hit.end]

\* exec on s, subj being the text the expression is matched against.
ExecOn(re, s, subj, li) == ExecResult(re, s, subj, Search(re, subj, li))

\* RegExp.prototype.exec of a global expression whose lastIndex is li:
\* [found, match (m[0]), group (m[1] || m[0]), lastIndex (the new one)].
\* A failed exec resets lastIndex to 0.
Exec(re, s, li) == ExecOn(re, s, Subject(re, s), li)

RECURSIVE MatchesFrom(_, _, _)
\* The matches of re in s from position p on, r being the first exec.
MatchesAfter(re, s, p, r) ==
  IF ~r.found THEN <<>>
  ELSE <<r.match>> \o MatchesFrom(re, s, IF r.lastIndex = p THEN p + 1 ELSE r.lastIndex)

\* All matches of the global expression re in s from position p on.
MatchesFrom(re, s, p) == MatchesAfter(re, s, p, Exec(re, s, p))

\* String.prototype.match of a global expression: it starts from lastIndex 0
\* whatever the expression's lastIndex was, and leaves it 0. <<>> stands for
\* the null it returns when nothing matches.
StringMatch(s, re) == MatchesFrom(re, s, 0)

\* RegExp.prototype.test of a freshly evaluated literal (lastIndex 0).
Test(re, s) == Exec(re, s, 0).found

-----------------------------------------------------------------------------
(* Types (src/src/types/index.ts, src/src/tools/gatherContext.ts 441-448). *)

Sources == {"stackoverflow", "github", "reddit"}

CONFIGURATION == "configuration"
BUG_REPORT == "bug"
PERFORMANCE == "performance"
COMPATIBILITY == "compatibility"
BEST_PRACTICE == "practice"
UNKNOWN == "unknown"
ProblemType ==
  {CONFIGURATION, BUG_REPORT, PERFORMANCE, COMPATIBILITY, BEST_PRACTICE, UNKNOWN}

\* A NormalizedResult. url is a number standing for a distinct address;
\* createdAt and updatedAt are the age of the instant in whole days before
\* Date.now(); codeSnippets is a sequence of [language, code].
NormalizedResult(title, url, source, author, createdAt, updatedAt, score, content, codeSnippets, tags, version, isAccepted, voteCount) ==
  [title |-> title, url |-> url, source |-> source, author |-> author,
   createdAt |-> createdAt, updatedAt |-> updatedAt, score |-> score,
   content |-> content, codeSnippets |-> codeSnippets, tags |-> tags,
   version |-> version, isAccepted |-> isAccepted, voteCount |-> voteCount]

\* The truthiness of an optional boolean (isAccepted), of an optional string
\* (version), and the value of (n || 0) for an optional number.
IsTrue(opt) == opt = <<TRUE>>
IsNonEmpty(opt) == opt # <<>> /\ opt[1] # <<>>
NumberOrZero(opt) == IF opt = <<>> THEN 0 ELSE opt[1]

-----------------------------------------------------------------------------
(* ResultRanker (src/src/core/ranker.ts 134-310). *)

\* new ResultRanker(query, problemType): this.query = query.toLowerCase().
RankerQuery(q) == ToLowerCase(q)

\* calculateRelevanceScore
CalculateRelevanceScore(q, result) ==
  LET queryWords == SplitWhitespace(q)
      titleLower == ToLowerCase(result.title)
      contentLower == ToLowerCase(result.content)
      wordScore(word) ==
        (IF Includes(titleLower, word) THEN 10 ELSE 0)
        + (IF Includes(contentLower, word) THEN 2 ELSE 0)
      RECURSIVE SumWords(_)
      SumWords(k) == IF k = 0 THEN 0 ELSE SumWords(k - 1) + wordScore(queryWords[k])
      phrase == IF Includes(titleLower, q) THEN 20 ELSE 0
      tagScore(tag) ==
        IF Includes(q, ToLowerCase(tag)) \/ Includes(ToLowerCase(tag), q) THEN 5 ELSE 0
      RECURSIVE SumTags(_)
      SumTags(k) == IF k = 0 THEN 0 ELSE SumTags(k - 1) + tagScore(result.tags[k])
  IN Min(SumWords(Len(queryWords)) + phrase + SumTags(Len(result.tags)), 100)

\* A bug and compatibility curve that gives 45 from 90 to under 180 days: the
\* mutant of CalculateRecencyScore.
CalculateRecencyScoreSlowDecay(pt, result) ==
  LET created == result.createdAt
      updated == IF result.updatedAt # <<>> THEN result.updatedAt[1] ELSE created
      daysSince == Min(created, updated)
  IN IF pt = <<BUG_REPORT>> \/ pt = <<COMPATIBILITY>>
     THEN IF daysSince < 7 THEN 100
          ELSE IF daysSince < 30 THEN 85
          ELSE IF daysSince < 90 THEN 60
          ELSE IF daysSince < 180 THEN 45
          ELSE IF daysSince < 365 THEN 15
          ELSE 5
     ELSE IF pt = <<BEST_PRACTICE>>
     THEN IF daysSince < 30 THEN 100
          ELSE IF daysSince < 180 THEN 90
          ELSE IF daysSince < 365 THEN 80
          ELSE IF daysSince < 730 THEN 70
          ELSE IF daysSince < 1095 THEN 50
          ELSE 30
     ELSE IF daysSince < 7 THEN 100
          ELSE IF daysSince < 30 THEN 80
          ELSE IF daysSince < 90 THEN 60
          ELSE IF daysSince < 365 THEN 40
          ELSE IF daysSince < 730 THEN 20
          ELSE 10

\* calculateRecencyScore
CalculateRecencyScore(pt, result) ==
  LET created == result.createdAt
      updated == IF result.updatedAt # <<>> THEN result.updatedAt[1] ELSE created
      \* Math.max of the two instants is the smaller of the two ages
      daysSince == Min(created, updated)
  IN IF pt = <<BUG_REPORT>> \/ pt = <<COMPATIBILITY>>
     THEN IF daysSince < 7 THEN 100
          ELSE IF daysSince < 30 THEN 85
          ELSE IF daysSince < 90 THEN 60
          ELSE IF daysSince < 180 THEN 30
          ELSE IF daysSince < 365 THEN 15
          ELSE 5
     ELSE IF pt = <<BEST_PRACTICE>>
     THEN IF daysSince < 30 THEN 100
          ELSE IF daysSince < 180 THEN 90
          ELSE IF daysSince < 365 THEN 80
          ELSE IF daysSince < 730 THEN 70
          ELSE IF daysSince < 1095 THEN 50
          ELSE 30
     ELSE IF daysSince < 7 THEN 100
          ELSE IF daysSince < 30 THEN 80
          ELSE IF daysSince < 90 THEN 60
          ELSE IF daysSince < 365 THEN 40
          ELSE IF daysSince < 730 THEN 20
          ELSE 10

\* calculateCommunityScore, times 2 (result.score / 2 may be a half).
CalculateCommunityScore2(result) ==
  LET votes == NumberOrZero(result.voteCount)
  IN Min(Min(2 * votes, 100)
         + Min(result.score, 50)
         + (IF IsTrue(result.isAccepted) THEN 50 ELSE 0),
         200)

DefaultWeights == [relevance |-> 35, recency |-> 25, community |-> 20]

\* getScoreWeights, in hundredths.
GetScoreWeights(pt, flt) ==
  IF pt = <<>> THEN DefaultWeights
  ELSE IF pt[1] \in DOMAIN flt.problemTypeWeights
       THEN flt.problemTypeWeights[pt[1]]
       ELSE DefaultWeights

\* The default bonus for every accepted result, whatever the problem type:
\* the mutant of GetAcceptedBonus.
GetAcceptedBonusDefault(pt, result) ==
  IF ~IsTrue(result.isAccepted) THEN 0 ELSE 12

\* getAcceptedBonus
GetAcceptedBonus(pt, result) ==
  IF ~IsTrue(result.isAccepted) THEN 0
  ELSE IF pt = <<CONFIGURATION>> \/ pt = <<BEST_PRACTICE>> THEN 20
  ELSE IF pt = <<BUG_REPORT>> THEN 15
  ELSE 12

\* /bug|issue|error|fix|problem/i and /how to|how do|what is|explain/i
IsBugQuery(q) ==
  Test(AnyOf(<< <<"b", "u", "g">>,
                <<"i", "s", "s", "u", "e">>,
                <<"e", "r", "r", "o", "r">>,
                <<"f", "i", "x">>,
                <<"p", "r", "o", "b", "l", "e", "m">> >>), q)
IsHowToQuery(q) ==
  Test(AnyOf(<< <<"h", "o", "w", " ", "t", "o">>,
                <<"h", "o", "w", " ", "d", "o">>,
                <<"w", "h", "a", "t", " ", "i", "s">>,
                <<"e", "x", "p", "l", "a", "i", "n">> >>), q)

\* calculateSourceScore: a weight of the table is in hundredths, so the
\* weight times 100 is the number itself; a weight of 0 is falsy.
CalculateSourceScore(q, pt, flt, result) ==
  IF /\ pt # <<>>
     /\ pt[1] \in DOMAIN flt.sourceWeights
     /\ result.source \in DOMAIN flt.sourceWeights[pt[1]]
     /\ flt.sourceWeights[pt[1]][result.source] # 0
  THEN flt.sourceWeights[pt[1]][result.source]
  ELSE IF result.source = "stackoverflow" /\ IsHowToQuery(q) THEN 100
  ELSE IF result.source = "github" /\ IsBugQuery(q) THEN 100
  ELSE 50

\* A scoring that takes no result for accepted: the mutant of ScoreResult.
ScoreResultBlindToAcceptance(q, pt, flt, result) ==
  LET unaccepted == [result EXCEPT !.isAccepted = <<>>]
      relevanceScore == CalculateRelevanceScore(q, unaccepted)
      recencyScore == CalculateRecencyScore(pt, unaccepted)
      communityScore2 == CalculateCommunityScore2(unaccepted)
      sourceScore == CalculateSourceScore(q, pt, flt, unaccepted)
      weights == GetScoreWeights(pt, flt)
      finalScore == relevanceScore * weights.relevance * 2
                    + recencyScore * weights.recency * 2
                    + communityScore2 * weights.community
                    + sourceScore * 10
  IN result @@ [relevanceScore |-> relevanceScore, recencyScore |-> recencyScore,
                communityScore2 |-> communityScore2, finalScore |-> finalScore]

\* The callback of results.map in rankResults: the result with its scores.
\* communityScore2 is 2 * communityScore and finalScore is 200 * finalScore.
ScoreResult(q, pt, flt, result) ==
  LET relevanceScore == CalculateRelevanceScore(q, result)
      recencyScore == CalculateRecencyScore(pt, result)
      communityScore2 == CalculateCommunityScore2(result)
      sourceScore == CalculateSourceScore(q, pt, flt, result)
      weights == GetScoreWeights(pt, flt)
      acceptedBonus == GetAcceptedBonus(pt, result)
      finalScore == relevanceScore * weights.relevance * 2
                    + recencyScore * weights.recency * 2
                    + communityScore2 * weights.community
                    + acceptedBonus * 200
                    + sourceScore * 10
  IN result @@ [relevanceScore |-> relevanceScore, recencyScore |-> recencyScore,
                communityScore2 |-> communityScore2, finalScore |-> finalScore]

\* A comparator that orders ascending: the mutant of Compare.
CompareAscending(a, b) == a.finalScore - b.finalScore

\* (a, b) => b.finalScore - a.finalScore
Compare(a, b) == b.finalScore - a.finalScore

\* An insertion that puts x before the elements it ties with: the mutant of
\* SortInsert.
SortInsertBeforeTies(sorted, x) ==
  LET keep == {k \in 0..Len(sorted) : \A j \in 1..k : Compare(sorted[j], x) < 0}
      n == CHOOSE k \in keep : \A m \in keep : m <= k
  IN SubSeq(sorted, 1, n) \o <<x>> \o SubSeq(sorted, n + 1, Len(sorted))

\* Array.prototype.sort is a stable sort: x, which came after every element
\* of sorted in the array, goes after the elements that compare before it or
\* equal to it.
SortInsert(sorted, x) ==
  LET keep == {k \in 0..Len(sorted) : \A j \in 1..k : Compare(sorted[j], x) <= 0}
      n == CHOOSE k \in keep : \A m \in keep : m <= k
  IN SubSeq(sorted, 1, n) \o <<x>> \o SubSeq(sorted, n + 1, Len(sorted))

RECURSIVE ArraySort(_)
ArraySort(xs) ==
  IF xs = <<>> THEN <<>>
  ELSE SortInsert(ArraySort(SubSeq(xs, 1, Len(xs) - 1)), xs[Len(xs)])

\* rankResults
RankResults(q, pt, flt, rs) ==
  ArraySort([i \in 1..Len(rs) |-> ScoreResult(q, pt, flt, rs[i])])

-----------------------------------------------------------------------------
(* ResultAggregator (src/src/tools/gatherContext.ts 279-440). *)

\* The fixed texts of the summary, the highlights, the snippet of a citation
\* and the empty bundle. A symbol (a mark that opens a highlight, the grave
\* accent of a code fence) is one element, written as its code point.
Txt ==
  [ NoRelevant |->
       <<"N", "o", " ", "r", "e", "l", "e", "v", "a", "n", "t", " ", "r",
       "e", "s", "u", "l", "t", "s", " ", "f", "o", "u", "n", "d", " ", "f",
       "o", "r", " ", "y", "o", "u", "r", " ", "q", "u", "e", "r", "y", ".">>,
    Found |->
       <<"F", "o", "u", "n", "d", " ">>,
    RelevantFrom |->
       <<" ", "r", "e", "l", "e", "v", "a", "n", "t", " ", "r", "e", "s",
       "u", "l", "t", "s", " ", "f", "r", "o", "m", " ">>,
    And |->
       <<" ", "a", "n", "d", " ">>,
    Accepted |->
       <<" ", "r", "e", "s", "u", "l", "t", "(", "s", ")", " ", "h", "a",
       "v", "e", " ", "a", "c", "c", "e", "p", "t", "e", "d", "/", "v", "e",
       "r", "i", "f", "i", "e", "d", " ", "s", "o", "l", "u", "t", "i", "o",
       "n", "s", ".", " ">>,
    TopResult |->
       <<"T", "h", "e", " ", "t", "o", "p", " ", "r", "e", "s", "u", "l",
       "t", " ", "\"">>,
    Appears |->
       <<"\"", " ", "a", "p", "p", "e", "a", "r", "s", " ", "h", "i", "g",
       "h", "l", "y", " ", "r", "e", "l", "e", "v", "a", "n", "t", " ", "w",
       "i", "t", "h", " ", "a", " ", "s", "c", "o", "r", "e", " ", "o", "f",
       " ">>,
    DotSpace |->
       <<".", " ">>,
    VersionInfo |->
       <<"V", "e", "r", "s", "i", "o", "n", "-", "s", "p", "e", "c", "i",
       "f", "i", "c", " ", "i", "n", "f", "o", "r", "m", "a", "t", "i", "o",
       "n", " ", "f", "o", "u", "n", "d", " ", "f", "o", "r", ":", " ">>,
    Comma |->
       <<",", " ">>,
    Version |->
       <<" ", "V", "e", "r", "s", "i", "o", "n", " ">>,
    Colon |->
       <<":", " ">>,
    HighRelevance |->
       <<" ", "H", "i", "g", "h", " ", "r", "e", "l", "e", "v", "a", "n",
       "c", "e", ":", " ">>,
    Code |->
       <<"[", "c", "o", "d", "e", "]">>,
    Ellipsis |->
       <<".", ".", ".">>,
    Blank |->
       <<"\n", "\n">>,
    NoResults |->
       <<"N", "o", " ", "r", "e", "s", "u", "l", "t", "s", " ", "f", "o",
       "u", "n", "d", ".", " ", "A", "l", "l", " ", "d", "a", "t", "a", " ",
       "s", "o", "u", "r", "c", "e", "s", " ", "m", "a", "y", " ", "b", "e",
       " ", "u", "n", "a", "v", "a", "i", "l", "a", "b", "l", "e", " ", "o",
       "r", " ", "t", "h", "e", " ", "q", "u", "e", "r", "y", " ", "r", "e",
       "t", "u", "r", "n", "e", "d", " ", "n", "o", " ", "m", "a", "t", "c",
       "h", "e", "s", ".">>,
    CheckMark |->
       "[U+2713]",
    Bullet |->
       "[U+2022]",
    Pushpin |->
       "[U+1F4CC]",
    Star |->
       "[U+2B50]",
    Fence |->
       <<"[U+0060]", "[U+0060]", "[U+0060]">> ]

\* The decimal digits of a natural number.
RECURSIVE NatToString(_)
NatToString(n) ==
  LET digits == <<"0", "1", "2", "3", "4", "5", "6", "7", "8", "9">>
  IN IF n < 10 THEN <<digits[n + 1]>>
     ELSE Append(NatToString(n \div 10), digits[(n % 10) + 1])

\* An integer interpolated into a template literal.
NumberToString(n) == IF n < 0 THEN <<"-">> \o NatToString(-n) ELSE NatToString(n)

\* Math.floor in the place of Math.round: the mutant of RoundScore.
FloorScore(finalScore) == finalScore \div 200

\* Math.round(finalScore), finalScore being kept times 200: halves round up.
RoundScore(finalScore) == (finalScore + 100) \div 200

\* Array.prototype.slice(0, n)
Take(xs, n) == SubSeq(xs, 1, Min(n, Len(xs)))

\* generateSummary
GenerateSummary(rs) ==
  IF Len(rs) = 0 THEN Txt.NoRelevant
  ELSE
    LET topResult == rs[1]
        IsAccepted(r) == IsTrue(r.isAccepted)
        HasVersion(r) == IsNonEmpty(r.version)
        acceptedResults == SelectSeq(rs, IsAccepted)
        sources == Unique([i \in 1..Len(rs) |-> rs[i].source])
        sourceNames == [i \in 1..Len(sources) |-> <<sources[i]>>]
        withVersion == SelectSeq(rs, HasVersion)
        versionsFound == Unique([i \in 1..Len(withVersion) |-> withVersion[i].version[1]])
        summary ==
          Txt.Found \o NumberToString(Len(rs)) \o Txt.RelevantFrom
          \o Join(sourceNames, Txt.And) \o Txt.DotSpace
          \o (IF Len(acceptedResults) > 0
              THEN NumberToString(Len(acceptedResults)) \o Txt.Accepted
              ELSE <<>>)
          \o (IF topResult.finalScore > 80 * 200
              THEN Txt.TopResult \o topResult.title \o Txt.Appears
                   \o NumberToString(RoundScore(topResult.finalScore)) \o Txt.DotSpace
              ELSE <<>>)
          \o (IF Len(versionsFound) > 0
              THEN Txt.VersionInfo \o Join(versionsFound, Txt.Comma) \o Txt.DotSpace
              ELSE <<>>)
    IN Trim(summary)

\* The highlight of one of the top 3 results, of a version-specific result
\* and of a high-score result.
TopHighlight(r) ==
  <<IF IsTrue(r.isAccepted) THEN Txt.CheckMark ELSE Txt.Bullet, " ">>
  \o r.title \o <<" ", "(", r.source, ")">>
VersionHighlight(r) == <<Txt.Pushpin>> \o Txt.Version \o r.version[1] \o Txt.Colon \o r.title
HighScoreHighlight(r) == <<Txt.Star>> \o Txt.HighRelevance \o r.title

\* results.filter(r => r.version): every result that carries a version,
\* whether a highlight already lists it or not.
VersionSpecific(rs) ==
  LET HasVersion(r) == IsNonEmpty(r.version)
  IN SelectSeq(rs, HasVersion)

\* highlights.slice(0, 5) left out: the mutant of HighlightsSlice.
HighlightsUncut(highlights) == highlights

\* return highlights.slice(0, 5)
HighlightsSlice(highlights) == Take(highlights, 5)

\* The highlights pushed by extractHighlights before its slice. A source
\* name is one element of the text of a highlight: no title of the model
\* holds a letter run of a source name.
PushedHighlights(rs) ==
  LET top == Take(rs, 3)
      h1 == [i \in 1..Len(top) |-> TopHighlight(top[i])]
      versionSpecific == Take(VersionSpecific(rs), 2)
      h2 == h1 \o [i \in 1..Len(versionSpecific) |-> VersionHighlight(versionSpecific[i])]
      IsHighScore(r) ==
        /\ r.finalScore > 70 * 200
        /\ ~\E k \in 1..Len(h2) : Includes(h2[k], r.title)
      highScore == Take(SelectSeq(rs, IsHighScore), 2)
  IN h2 \o [i \in 1..Len(highScore) |-> HighScoreHighlight(highScore[i])]

\* extractHighlights
ExtractHighlights(rs) == HighlightsSlice(PushedHighlights(rs))

RECURSIVE IndexOf(_, _, _)
\* s.indexOf(sub, from): the first position at or after from, or -1.
IndexOf(s, sub, from) ==
  IF from + Len(sub) > Len(s) THEN -1
  ELSE IF OccursAt(s, sub, from) THEN from
  ELSE IndexOf(s, sub, from + 1)

RECURSIVE ReplaceCodeBlocks(_)
\* content.replace(/FENCE[\s\S]*?FENCE/g, '[code]'), FENCE being three
\* grave accents.
ReplaceCodeBlocks(s) ==
  LET open == IndexOf(s, Txt.Fence, 0)
      close == IF open = -1 THEN -1 ELSE IndexOf(s, Txt.Fence, open + 3)
  IN IF close = -1 THEN s
     ELSE Substring(s, 0, open) \o Txt.Code
          \o ReplaceCodeBlocks(Substring(s, close + 3, Len(s)))

RECURSIVE Split(_, _)
\* String.prototype.split with a string separator that is not empty.
Split(s, sep) ==
  LET p == IndexOf(s, sep, 0)
  IN IF p = -1 THEN <<s>>
     ELSE <<Substring(s, 0, p)>> \o Split(Substring(s, p + Len(sep), Len(s)), sep)

\* extractSnippet
ExtractSnippet(content) ==
  LET withoutCode == ReplaceCodeBlocks(content)
      Meaningful(p) == Len(Trim(p)) > 50
      paragraphs == SelectSeq(Split(withoutCode, Txt.Blank), Meaningful)
  IN IF Len(paragraphs) > 0
     THEN LET snippet == Substring(paragraphs[1], 0, 200)
          IN snippet \o (IF Len(snippet) < Len(paragraphs[1]) THEN Txt.Ellipsis ELSE <<>>)
     ELSE Substring(content, 0, 200) \o Txt.Ellipsis

\* results.slice(0, 5) of createCitations
CitationsSlice(rs) == Take(rs, 5)

\* createCitations. createdAt stays the age in days of the instant.
CreateCitations(rs) ==
  LET top == CitationsSlice(rs)
  IN [i \in 1..Len(top) |->
        [title |-> top[i].title, url |-> top[i].url, source |-> top[i].source,
         author |-> top[i].author, createdAt |-> top[i].createdAt,
         score |-> RoundScore(top[i].finalScore), version |-> top[i].version,
         snippet |-> ExtractSnippet(top[i].content)]]

\* All code snippets of the results, in order (the two nested forEach).
RECURSIVE AllSnippets(_)
AllSnippets(rs) ==
  IF rs = <<>> THEN <<>> ELSE Head(rs).codeSnippets \o AllSnippets(Tail(rs))

RECURSIVE KeepUniqueUntrimmed(_, _, _)
\* The snippets pushed when the key of a snippet is its code as it stands:
\* the mutant of KeepUnique.
KeepUniqueUntrimmed(snips, seenCode, acc) ==
  IF snips = <<>> THEN acc
  ELSE LET snippet == Head(snips)
           codeKey == snippet.code
       IN IF codeKey \notin seenCode /\ Len(snippet.code) > 20
          THEN KeepUniqueUntrimmed(Tail(snips), seenCode \cup {codeKey},
                                   Append(acc, snippet))
          ELSE KeepUniqueUntrimmed(Tail(snips), seenCode, acc)

RECURSIVE KeepUnique(_, _, _)
\* The snippets pushed, seenCode being the keys seen so far.
KeepUnique(snips, seenCode, acc) ==
  IF snips = <<>> THEN acc
  ELSE LET snippet == Head(snips)
           codeKey == Trim(snippet.code)
       IN IF codeKey \notin seenCode /\ Len(snippet.code) > 20
          THEN KeepUnique(Tail(snips), seenCode \cup {codeKey}, Append(acc, snippet))
          ELSE KeepUnique(Tail(snips), seenCode, acc)

\* return snippets.slice(0, 5)
SnippetsSlice(snippets) == Take(snippets, 5)

\* collectCodeSnippets
CollectCodeSnippets(rs) == SnippetsSlice(KeepUnique(AllSnippets(rs), {}, <<>>))

\* The counts of the first 10 results only: the mutant of
\* CalculateSourceCounts.
CalculateSourceCountsOfTop(rs) ==
  [s \in {rs[i].source : i \in 1..Min(Len(rs), 10)} |->
     Cardinality({i \in 1..Min(Len(rs), 10) : rs[i].source = s})]

\* calculateSourceCounts: a count for every source that has a result.
CalculateSourceCounts(rs) ==
  [s \in {rs[i].source : i \in 1..Len(rs)} |->
     Cardinality({i \in 1..Len(rs) : rs[i].source = s})]

\* aggregateResults
AggregateResults(rs, elapsedMs, cacheHits, incomplete) ==
  LET topResults == Take(rs, 10)
  IN [summary |-> GenerateSummary(topResults),
      highlights |-> ExtractHighlights(topResults),
      citations |-> CreateCitations(topResults),
      snippets |-> CollectCodeSnippets(topResults),
      stats |-> [elapsedMs |-> elapsedMs,
                 sourceCounts |-> CalculateSourceCounts(rs),
                 cacheHits |-> cacheHits,
                 incompleteSources |-> incomplete]]

-----------------------------------------------------------------------------
(* The ranker's inputs. *)

\* The texts of the sample queries and results: titles, contents, tags,
\* authors, versions and code.
Sample ==
  [ react_bug |->
       <<"r", "e", "a", "c", "t", " ", "b", "u", "g">>,
    how_to_fix_react |->
       <<"h", "o", "w", " ", "t", "o", " ", "f", "i", "x", " ", "r", "e",
       "a", "c", "t">>,
    React_bug_in_hooks |->
       <<"R", "e", "a", "c", "t", " ", "b", "u", "g", " ", "i", "n", " ",
       "h", "o", "o", "k", "s">>,
    hooks_crash |->
       <<"h", "o", "o", "k", "s", " ", "c", "r", "a", "s", "h">>,
    setup_guide |->
       <<"s", "e", "t", "u", "p", " ", "g", "u", "i", "d", "e">>,
    react |->
       <<"r", "e", "a", "c", "t">>,
    hooks |->
       <<"h", "o", "o", "k", "s">>,
    a_bug |->
       <<"a", " ", "b", "u", "g">>,
    alice |->
       <<"a", "l", "i", "c", "e">>,
    Alpha |->
       <<"A", "l", "p", "h", "a">>,
    Beta |->
       <<"B", "e", "t", "a">>,
    Gamma |->
       <<"G", "a", "m", "m", "a">>,
    Delta |->
       <<"D", "e", "l", "t", "a">>,
    v18 |->
       <<"1", "8">>,
    v17 |->
       <<"1", "7">>,
    code_useState |->
       <<"c", "o", "n", "s", "t", " ", "[", "n", ",", " ", "s", "e", "t",
       "N", "]", " ", "=", " ", "u", "s", "e", "S", "t", "a", "t", "e", "(",
       "0", ")", ";">>,
    code_useEffect |->
       <<"u", "s", "e", "E", "f", "f", "e", "c", "t", "(", "(", ")", " ",
       "=", ">", " ", "{", " ", "r", "u", "n", "(", ")", ";", " ", "}", ",",
       " ", "[", "]", ")", ";">>,
    code_install |->
       <<"n", "p", "m", " ", "i", "n", "s", "t", "a", "l", "l", " ", "r",
       "e", "a", "c", "t", "@", "1", "8", " ", "-", "-", "s", "a", "v", "e">>,
    code_import |->
       <<"i", "m", "p", "o", "r", "t", " ", "R", "e", "a", "c", "t", " ",
       "f", "r", "o", "m", " ", "r", "e", "a", "c", "t", ";">>,
    code_render |->
       <<"r", "o", "o", "t", ".", "r", "e", "n", "d", "e", "r", "(", "<",
       "A", "p", "p", " ", "/", ">", ")", ";", " ", "/", "/", " ", "m", "o",
       "u", "n", "t">>,
    code_config |->
       <<"e", "x", "p", "o", "r", "t", " ", "d", "e", "f", "a", "u", "l",
       "t", " ", "{", " ", "m", "o", "d", "e", ":", " ", "d", "e", "v", " ",
       "}", ";">>,
    code_short |->
       <<"n", "p", "m", " ", "i", " ", "r", "e", "a", "c", "t">> ]

\* The queries a ranker is constructed with.
RankQueries == {Sample.react_bug, Sample.how_to_fix_react}

\* Two contents of config/filters.json (global.problemTypeWeights and
\* global.sourceWeights, in hundredths): one with a table for some problem
\* types, one, sourceWeights entries of 0 included, and one with empty tables.
FilterConfigs ==
  { [problemTypeWeights |->
       (BUG_REPORT :> [relevance |-> 30, recency |-> 35, community |-> 15])
       @@ (CONFIGURATION :> [relevance |-> 40, recency |-> 15, community |-> 25])
       @@ (BEST_PRACTICE :> [relevance |-> 35, recency |-> 10, community |-> 30]),
     sourceWeights |->
       (BUG_REPORT :> ("github" :> 50 @@ "stackoverflow" :> 30 @@ "reddit" :> 0))
       @@ (CONFIGURATION :> ("stackoverflow" :> 50 @@ "github" :> 30))],
    [problemTypeWeights |-> <<>>, sourceWeights |-> <<>>] }

\* The results a source may return, but for their url.
RankPool ==
  { NormalizedResult(Sample.React_bug_in_hooks, 0, "github", Sample.alice, 3, <<>>, 10,
                     Sample.a_bug, <<>>, <<Sample.react>>, <<>>, <<TRUE>>, <<5>>),
    NormalizedResult(Sample.hooks_crash, 0, "stackoverflow", Sample.alice, 400, <<20>>, 120,
                     Sample.react, <<>>, <<Sample.hooks>>, <<>>, <<TRUE>>, <<60>>),
    NormalizedResult(Sample.setup_guide, 0, "reddit", Sample.alice, 40, <<>>, -3,
                     <<>>, <<>>, <<>>, <<>>, <<>>, <<-4>>),
    NormalizedResult(Sample.setup_guide, 0, "stackoverflow", Sample.alice, 100, <<>>, 0,
                     Sample.a_bug, <<>>, <<Sample.react_bug>>, <<>>, <<FALSE>>, <<>>) }

\* The lists of n results of the pool, result i with url i.
ResultLists(n) ==
  {[i \in 1..n |-> [f[i] EXCEPT !.url = i]] : f \in [1..n -> RankPool]}

-----------------------------------------------------------------------------
(* The state machine. *)

RankIdle ==
  /\ query = <<>>
  /\ problemType = <<>>
  /\ filters = [problemTypeWeights |-> <<>>, sourceWeights |-> <<>>]
  /\ results = <<>>
  /\ ranked = <<>>
  /\ rankPc = "idle"

AggIdle ==
  /\ aggInput = <<>>
  /\ aggIncomplete = <<>>
  /\ aggResult = <<>>

AnalyzerIdle ==
  /\ lastIndex = <<>>
  /\ analyzed = <<>>
  /\ analysis = <<>>
  /\ calls = 0

\* What performSearch of a source did: it was not called, it threw, or it
\* returned results.
NotFetched == [status |-> "none", results |-> <<>>]
FetchFailed == [status |-> "failed", results |-> <<>>]
FetchReturned(rs) == [status |-> "returned", results |-> rs]

\* A promise: not issued, pending, fulfilled with a value, or rejected.
NotIssued == [state |-> "none", value |-> <<>>]
Pending == [state |-> "pending", value |-> <<>>]
Fulfilled(v) == [state |-> "fulfilled", value |-> v]
Rejected == [state |-> "rejected", value |-> <<>>]

\* new LRUCache(100, 900) of gatherContext.ts, empty, at instant 0.
CacheMaxSize == 100
CacheTtlSeconds == 900
CacheIdle ==
  /\ cache = <<>>
  /\ now = 0
  /\ maxSize = CacheMaxSize
  /\ ttl = CacheTtlSeconds * 1000
  /\ cacheLog = <<>>

RetryIdle ==
  /\ retryPc = "idle"
  /\ maxRetries = 0
  /\ attempt = 0
  /\ lastError = <<>>
  /\ retryOutcome = <<>>
  /\ retryTrace = <<>>

RequestIdle ==
  /\ heap = <<>>
  /\ request = <<>>
  /\ pc = "idle"
  /\ caller = "none"
  /\ options = <<>>
  /\ tasks = [s \in Sources |-> NotIssued]
  /\ fetched = [s \in Sources |-> NotFetched]
  /\ incompleteSources = <<>>
  /\ outcome = <<>>
  /\ response = <<>>
  /\ requests = 0

GatherIdle == CacheIdle /\ RequestIdle /\ RetryIdle

\* A ranker constructed for a query and an optional problem type, and the
\* results it is about to rank.
RankInit ==
  /\ query \in RankQueries
  /\ problemType \in {<<>>} \cup {<<t>> : t \in ProblemType}
  /\ filters \in FilterConfigs
  /\ results \in UNION {ResultLists(n) : n \in 0..MaxResults}
  /\ ranked = <<>>
  /\ rankPc = "ready"

\* ranker.rankResults(results)
Rank ==
  /\ rankPc = "ready"
  /\ ranked' = RankResults(RankerQuery(query), problemType, filters, results)
  /\ rankPc' = "ranked"
  /\ UNCHANGED <<query, problemType, filters, results>>

InitRank == RankInit /\ AggIdle /\ AnalyzerIdle /\ GatherIdle
NextRank == Rank /\ UNCHANGED <<aggVars, analyzerVars, gatherVars>>
SpecRank == InitRank /\ [][NextRank]_vars

-----------------------------------------------------------------------------
(* Claims on rankResults. *)

\* The NormalizedResult a RankedResult extends.
Unscored(r) ==
  [f \in DOMAIN r \ {"relevanceScore", "recencyScore", "communityScore2", "finalScore"}
     |-> r[f]]

\* C1: rankResults returns a permutation of its input (the same number of
\* results, every input result exactly once) in non-increasing finalScore
\* order.
C1_RankIsSortedPermutation ==
  rankPc = "ranked" =>
    /\ Len(ranked) = Len(results)
    /\ \A i \in 1..Len(results) :
         /\ Cardinality({j \in 1..Len(ranked) : ranked[j].url = i}) = 1
         /\ \E j \in 1..Len(ranked) : Unscored(ranked[j]) = results[i]
    /\ \A j \in 1..(Len(ranked) - 1) : ranked[j].finalScore >= ranked[j + 1].finalScore

\* C1's case: a ranking that moved the first input result and holds results
\* of different finalScore.
C1_Witness ==
  /\ rankPc = "ranked"
  /\ Len(ranked) >= 2
  /\ ranked[1].url # 1
  /\ ranked[1].finalScore > ranked[Len(ranked)].finalScore

\* C2: rankResults is stable: of two results of equal finalScore, the one
\* that came first in the input (the smaller url) comes first in the output.
C2_RankIsStable ==
  rankPc = "ranked" =>
    \A i, j \in 1..Len(ranked) :
      (i < j /\ ranked[i].finalScore = ranked[j].finalScore)
        => ranked[i].url < ranked[j].url

\* C2's case: two results tie, and the ranking moved another result over
\* them.
C2_Witness ==
  /\ rankPc = "ranked"
  /\ \E i, j \in 1..Len(ranked) :
       i < j /\ ranked[i].finalScore = ranked[j].finalScore /\ ranked[i].url > 1
  /\ \E i, j \in 1..Len(ranked) : i < j /\ ranked[i].url > ranked[j].url

-----------------------------------------------------------------------------
(* The ranker on one result: rankResults over every combination of the
   fields the scores are computed from. *)

\* The ages in days of a result, one on each side of every breakpoint of the
\* recency curves.
ScoreAges == {0, 6, 7, 29, 30, 89, 90, 179, 180, 364, 365, 729, 730, 1094, 1095}

\* One result of every source, age, source-native score, accepted flag and
\* vote count; a score and a vote count may be negative, a flag or a vote
\* count may be absent, and a result may have been updated 29 days ago.
ScorePool ==
  { NormalizedResult(Sample.React_bug_in_hooks, 1, source, Sample.alice, createdAt,
                     updatedAt, score, Sample.a_bug, <<>>, <<Sample.react>>, <<>>,
                     isAccepted, voteCount) :
      source \in Sources, createdAt \in ScoreAges, updatedAt \in {<<>>, <<29>>},
      score \in {-3, 120}, isAccepted \in {<<>>, <<TRUE>>},
      voteCount \in {<<>>, <<-4>>, <<60>>} }

\* A ranker constructed for a query and an optional problem type, about to
\* rank one result.
ScoreInit ==
  /\ query \in RankQueries
  /\ problemType \in {<<>>} \cup {<<t>> : t \in ProblemType}
  /\ filters \in FilterConfigs
  /\ results \in {<<r>> : r \in ScorePool}
  /\ ranked = <<>>
  /\ rankPc = "ready"

InitScore == ScoreInit /\ AggIdle /\ AnalyzerIdle /\ GatherIdle
SpecScore == InitScore /\ [][NextRank]_vars

\* finalScore is relevanceScore * weights.relevance + recencyScore *
\* weights.recency + communityScore * weights.community + acceptedBonus +
\* sourceScore * 0.05: the part of it the three attached scores account for,
\* in two-hundredths.
WeightedScores(r) ==
  LET weights == GetScoreWeights(problemType, filters)
  IN r.relevanceScore * weights.relevance * 2
     + r.recencyScore * weights.recency * 2
     + r.communityScore2 * weights.community

\* C11: the relevanceScore, the recencyScore and the communityScore of every
\* ranked result lie between 0 and 100 inclusive, whatever the sign of the
\* result's score and vote count.
C11_ScoresWithinScale ==
  rankPc = "ranked" =>
    \A j \in 1..Len(ranked) :
      /\ ranked[j].relevanceScore \in 0..100
      /\ ranked[j].recencyScore \in 0..100
      /\ ranked[j].communityScore2 \in 0..200

\* C12: for an accepted result of source-native score 120 ranked under
\* configuration, the community score is 50 + min(voteCount, 50), an absent
\* voteCount counting as 0, so it is the cap of 100 exactly when voteCount is
\* at least 50; the accepted bonus in the final score is 20.
C12_AcceptedScore120UnderConfiguration ==
  (rankPc = "ranked" /\ problemType = <<CONFIGURATION>>) =>
    \A j \in 1..Len(ranked) :
      (IsTrue(ranked[j].isAccepted) /\ ranked[j].score = 120) =>
        /\ ranked[j].communityScore2
             = 2 * (50 + Min(NumberOrZero(ranked[j].voteCount), 50))
        /\ (ranked[j].communityScore2 = 200)
             <=> (NumberOrZero(ranked[j].voteCount) >= 50)
        /\ ranked[j].finalScore
             = WeightedScores(ranked[j]) + 20 * 200
               + CalculateSourceScore(RankerQuery(query), problemType, filters,
                                      ranked[j]) * 10

\* C12's case: an accepted result of score 120 and 60 votes was ranked under
\* configuration and its community score is the cap.
C12_Witness ==
  /\ rankPc = "ranked"
  /\ problemType = <<CONFIGURATION>>
  /\ IsTrue(ranked[1].isAccepted)
  /\ ranked[1].score = 120
  /\ ranked[1].voteCount = <<60>>
  /\ ranked[1].communityScore2 = 200

\* C12 as stated: the community score of every accepted result of score 120
\* ranked under configuration is 100, and its accepted bonus is 20.
C12_CommunityScoreIsTheCap ==
  (rankPc = "ranked" /\ problemType = <<CONFIGURATION>>) =>
    \A j \in 1..Len(ranked) :
      (IsTrue(ranked[j].isAccepted) /\ ranked[j].score = 120) =>
        /\ ranked[j].communityScore2 = 200
        /\ ranked[j].finalScore
             = WeightedScores(ranked[j]) + 20 * 200
               + CalculateSourceScore(RankerQuery(query), problemType, filters,
                                      ranked[j]) * 10

\* The days since the later of the creation and the last update of a result.
DaysSince(r) ==
  IF r.updatedAt # <<>> THEN Min(r.createdAt, r.updatedAt[1]) ELSE r.createdAt

\* C19: under bug-report and compatibility the recency score is no greater
\* than the default curve gives for the same age at every age below 7 days or
\* of 30 days and more, and lower from 90 days on; from 7 to under 30 days it
\* is 85, above the 80 of the default curve.
C19_BugCurveAgainstDefault ==
  (rankPc = "ranked" /\ problemType \in {<<BUG_REPORT>>, <<COMPATIBILITY>>}) =>
    \A j \in 1..Len(ranked) :
      /\ (DaysSince(ranked[j]) < 7 \/ DaysSince(ranked[j]) >= 30) =>
           ranked[j].recencyScore <= CalculateRecencyScore(<<>>, ranked[j])
      /\ DaysSince(ranked[j]) >= 90 =>
           ranked[j].recencyScore < CalculateRecencyScore(<<>>, ranked[j])
      /\ (DaysSince(ranked[j]) >= 7 /\ DaysSince(ranked[j]) < 30) =>
           /\ ranked[j].recencyScore = 85
           /\ CalculateRecencyScore(<<>>, ranked[j]) = 80

\* C19's case: a result created a year ago and updated 29 days ago was
\* ranked under compatibility.
C19_Witness ==
  /\ rankPc = "ranked"
  /\ problemType = <<COMPATIBILITY>>
  /\ ranked[1].createdAt = 365
  /\ ranked[1].updatedAt = <<29>>
  /\ ranked[1].recencyScore = 85

\* C19 as stated: under bug-report and compatibility the recency score is no
\* greater than the default curve gives for the same age, at every age.
C19_BugCurveNeverAboveDefault ==
  (rankPc = "ranked" /\ problemType \in {<<BUG_REPORT>>, <<COMPATIBILITY>>}) =>
    \A j \in 1..Len(ranked) :
      ranked[j].recencyScore <= CalculateRecencyScore(<<>>, ranked[j])

\* C20: when the source weight table has an entry for the problem type and
\* the source of a result, whatever the weight, the source score in the
\* final score is that weight times 100; the legacy heuristic (100 for
\* stackoverflow with a how-to query, 100 for github with a bug-like query,
\* else 50) applies only when there is no such entry.
C20_TableEntryDecidesSourceScore ==
  rankPc = "ranked" =>
    \A j \in 1..Len(ranked) :
      LET hasEntry ==
            /\ problemType # <<>>
            /\ problemType[1] \in DOMAIN filters.sourceWeights
            /\ ranked[j].source \in DOMAIN filters.sourceWeights[problemType[1]]
          legacy ==
            IF ranked[j].source = "stackoverflow" /\ IsHowToQuery(RankerQuery(query))
            THEN 100
            ELSE IF ranked[j].source = "github" /\ IsBugQuery(RankerQuery(query))
            THEN 100
            ELSE 50
          sourceScore ==
            IF hasEntry THEN filters.sourceWeights[problemType[1]][ranked[j].source]
            ELSE legacy
      IN ranked[j].finalScore
           = WeightedScores(ranked[j])
             + GetAcceptedBonus(problemType, ranked[j]) * 200
             + sourceScore * 10

-----------------------------------------------------------------------------
(* The aggregator on its own: aggregateResults over a ranked list. *)

\* A CodeSnippet
CodeSnippet(code) == [language |-> "javascript", code |-> code]

\* A RankedResult: a NormalizedResult and its four scores.
RankedResult(result, relevanceScore, recencyScore, communityScore2, finalScore) ==
  result @@ [relevanceScore |-> relevanceScore, recencyScore |-> recencyScore,
             communityScore2 |-> communityScore2, finalScore |-> finalScore]

\* The ranked results handed to the aggregator, each of its own finalScore
\* (85, 75, 72.5, 60 and 50 points, times 200).
AggPool ==
  { RankedResult(
      NormalizedResult(Sample.Alpha, 1, "github", Sample.alice, 3, <<>>, 10, Sample.a_bug,
                       <<CodeSnippet(Sample.code_useState)>>, <<Sample.react>>, <<Sample.v18>>,
                       <<TRUE>>, <<5>>),
      90, 100, 80, 17000),
    RankedResult(
      NormalizedResult(Sample.Beta, 2, "stackoverflow", Sample.alice, 40, <<>>, 60, Sample.react,
                       <<CodeSnippet(Sample.code_useState), CodeSnippet(Sample.code_useEffect)>>,
                       <<Sample.hooks>>, <<>>, <<FALSE>>, <<60>>),
      80, 80, 100, 15000),
    RankedResult(
      NormalizedResult(Sample.Alpha, 3, "reddit", Sample.alice, 100, <<>>, 7, Sample.a_bug,
                       <<CodeSnippet(Sample.code_install), CodeSnippet(Sample.code_install
                           \o <<" ">>)>>,
                       <<>>, <<Sample.v17>>, <<>>, <<>>),
      70, 70, 60, 14500),
    RankedResult(
      NormalizedResult(Sample.Gamma, 4, "stackoverflow", Sample.alice, 200, <<>>, 2, Sample.hooks,
                       <<CodeSnippet(Sample.code_short)>>, <<>>, <<>>, <<TRUE>>, <<2>>),
      60, 50, 40, 12000),
    RankedResult(
      NormalizedResult(Sample.Delta, 5, "github", Sample.alice, 400, <<>>, 1, Sample.react,
                       <<CodeSnippet(Sample.code_import), CodeSnippet(Sample.code_render),
                         CodeSnippet(Sample.code_config)>>,
                       <<>>, <<Sample.v18>>, <<>>, <<>>),
      50, 40, 20, 10000) }

\* The longest ranked list handed to the aggregator.
MaxRanked == 11

\* The elapsed milliseconds a caller measures.
ElapsedValues == {0, 3}

\* The incompleteSources argument: left out, or a list of sources.
IncompleteArguments == {<<>>, <<<<"github">>>>}

AggInit ==
  /\ aggInput = <<>>
  /\ aggIncomplete \in IncompleteArguments
  /\ aggResult = <<>>

\* One more result at the end of the ranked list a caller builds, the list
\* staying in ranked order.
AddRanked(r) ==
  /\ Len(aggInput) < MaxRanked
  /\ Len(aggInput) > 0 => aggInput[Len(aggInput)].finalScore >= r.finalScore
  /\ aggInput' = Append(aggInput, r)
  /\ aggResult' = <<>>
  /\ UNCHANGED aggIncomplete

\* aggregator.aggregateResults(aggInput, elapsedMs, 0, aggIncomplete)
Aggregate ==
  /\ aggResult = <<>>
  /\ \E elapsedMs \in ElapsedValues :
       aggResult' = <<AggregateResults(aggInput, elapsedMs, 0, aggIncomplete)>>
  /\ UNCHANGED <<aggInput, aggIncomplete>>

InitAggregate == RankIdle /\ AggInit /\ AnalyzerIdle /\ GatherIdle
NextAggregate ==
  /\ \/ \E r \in AggPool : AddRanked(r)
     \/ Aggregate
  /\ UNCHANGED <<rankVars, analyzerVars, gatherVars>>
SpecAggregate == InitAggregate /\ [][NextAggregate]_vars

\* C8: a bundle holds at most 5 citations, at most 5 code snippets and at
\* most 5 highlights.
C8_AtMostFiveOfEach ==
  aggResult # <<>> =>
    /\ Len(aggResult[1].citations) <= 5
    /\ Len(aggResult[1].snippets) <= 5
    /\ Len(aggResult[1].highlights) <= 5

\* C8's case: more than 5 results, more than 5 unique snippets and more than
\* 5 pushed highlights were at hand, and the bundle holds 5 of each.
C8_Witness ==
  /\ aggResult # <<>>
  /\ Len(aggInput) > 5
  /\ Len(KeepUnique(AllSnippets(Take(aggInput, 10)), {}, <<>>)) > 5
  /\ Len(PushedHighlights(Take(aggInput, 10))) > 5
  /\ Len(aggResult[1].citations) = 5
  /\ Len(aggResult[1].snippets) = 5
  /\ Len(aggResult[1].highlights) = 5

\* The place among all of the first snippet longer than 20 characters whose
\* trimmed code is that of snippet, which is one of them.
FirstQualifying(all, snippet) ==
  LET same == {m \in 1..Len(all) :
                 Len(all[m].code) > 20 /\ Trim(all[m].code) = Trim(snippet.code)}
  IN CHOOSE m \in same : \A n \in same : m <= n

\* C15: the snippets of a bundle are the first unique qualifying snippets of
\* the results aggregated, at most 5, in ranked order: no two have the same
\* trimmed code, each is longer than 20 characters, each is the first
\* qualifying occurrence of its trimmed code, and no qualifying code before
\* the last of them (or at all, when fewer than 5 are returned) is left out.
C15_SnippetsAreFirstUnique ==
  aggResult # <<>> =>
    LET all == AllSnippets(Take(aggInput, 10))
        snippets == aggResult[1].snippets
        Qualifying == {m \in 1..Len(all) : Len(all[m].code) > 20}
        Returned == {Trim(snippets[k].code) : k \in 1..Len(snippets)}
    IN /\ Len(snippets) <= 5
       /\ \A i, j \in 1..Len(snippets) :
            i < j => Trim(snippets[i].code) # Trim(snippets[j].code)
       /\ \A k \in 1..Len(snippets) :
            /\ Len(snippets[k].code) > 20
            /\ \E m \in Qualifying : Trim(all[m].code) = Trim(snippets[k].code)
            /\ snippets[k] = all[FirstQualifying(all, snippets[k])]
       /\ \A k \in 1..(Len(snippets) - 1) :
            FirstQualifying(all, snippets[k]) < FirstQualifying(all, snippets[k + 1])
       /\ \A m \in Qualifying :
            \/ Trim(all[m].code) \in Returned
            \/ /\ Len(snippets) = 5
               /\ m > FirstQualifying(all, snippets[5])

\* C15's case: two results of different sources among those aggregated carry
\* the same code, longer than 20 characters, a result carries a code and the
\* same code with a space after it, and the bundle holds 5 snippets.
C15_Witness ==
  /\ aggResult # <<>>
  /\ Len(aggResult[1].snippets) = 5
  /\ \E i, j \in 1..Min(Len(aggInput), 10) :
       /\ i < j
       /\ aggInput[i].source # aggInput[j].source
       /\ \E a \in Range(aggInput[i].codeSnippets), b \in Range(aggInput[j].codeSnippets) :
            a.code = b.code /\ Len(a.code) > 20
  /\ \E i \in 1..Min(Len(aggInput), 10) :
       \E a, b \in Range(aggInput[i].codeSnippets) :
         a.code # b.code /\ Trim(a.code) = Trim(b.code) /\ Len(a.code) > 20

\* C16: the citations of a bundle are the first min(5, n) ranked results in
\* ranked order: citation i carries the title, url, source, author and version
\* of ranked result i and its finalScore rounded to the nearest integer (a
\* half rounds up), so the scores of the citations do not increase.
C16_CitationsAreTopFive ==
  aggResult # <<>> =>
    LET citations == aggResult[1].citations
    IN /\ Len(citations) = Min(5, Len(aggInput))
       /\ \A i \in 1..Len(citations) :
            /\ citations[i].title = aggInput[i].title
            /\ citations[i].url = aggInput[i].url
            /\ citations[i].source = aggInput[i].source
            /\ citations[i].author = aggInput[i].author
            /\ citations[i].version = aggInput[i].version
            /\ 200 * citations[i].score - 100 <= aggInput[i].finalScore
            /\ aggInput[i].finalScore < 200 * citations[i].score + 100
       /\ \A i \in 1..(Len(citations) - 1) : citations[i].score >= citations[i + 1].score

\* C16's case: more than 5 results were aggregated, the bundle cites 5 of
\* them, one of them with a finalScore that is rounded up, and the scores of
\* the citations differ.
C16_Witness ==
  /\ aggResult # <<>>
  /\ Len(aggInput) > 5
  /\ Len(aggResult[1].citations) = 5
  /\ \E i \in 1..5 : aggInput[i].finalScore < 200 * aggResult[1].citations[i].score
  /\ aggResult[1].citations[1].score > aggResult[1].citations[5].score

\* C17: the snippet of a citation ends with an ellipsis only when text was
\* cut off: the first paragraph longer than 50 characters is the snippet as
\* it stands when it has at most 200 characters and its first 200 characters
\* and the ellipsis when it is longer; with no such paragraph the snippet is
\* the first 200 characters of the content.
C17_EllipsisOnlyWhenCut ==
  aggResult # <<>> =>
    \A i \in 1..Len(aggResult[1].citations) :
      LET content == aggInput[i].content
          snippet == aggResult[1].citations[i].snippet
          Meaningful(p) == Len(Trim(p)) > 50
          paragraphs == SelectSeq(Split(ReplaceCodeBlocks(content), Txt.Blank), Meaningful)
      IN IF paragraphs # <<>>
         THEN IF Len(paragraphs[1]) <= 200
              THEN snippet = paragraphs[1]
              ELSE snippet = Substring(paragraphs[1], 0, 200) \o Txt.Ellipsis
         ELSE snippet = Substring(content, 0, 200)

\* The count stats.sourceCounts holds for a source, 0 for a source it does
\* not name.
CountOf(sourceCounts, s) == IF s \in DOMAIN sourceCounts THEN sourceCounts[s] ELSE 0

\* C18: stats.sourceCounts counts the whole ranked list, not its first 10
\* results: the count of each source is the number of ranked results of that
\* source, and the counts add up to the number of ranked results.
C18_SourceCountsCoverAllRanked ==
  aggResult # <<>> =>
    LET sourceCounts == aggResult[1].stats.sourceCounts
    IN /\ DOMAIN sourceCounts \subseteq Sources
       /\ \A s \in Sources :
            CountOf(sourceCounts, s)
              = Cardinality({i \in 1..Len(aggInput) : aggInput[i].source = s})
       /\ CountOf(sourceCounts, "stackoverflow") + CountOf(sourceCounts, "github")
            + CountOf(sourceCounts, "reddit") = Len(aggInput)

\* C18's case: more than 10 ranked results, of every source, were aggregated.
C18_Witness ==
  /\ aggResult # <<>>
  /\ Len(aggInput) > 10
  /\ DOMAIN aggResult[1].stats.sourceCounts = Sources

\* C9: no two highlights of a bundle mention the title of the same result.
C9_NoTitleInTwoHighlights ==
  aggResult # <<>> =>
    \A i \in 1..Len(aggInput) :
      Cardinality({k \in 1..Len(aggResult[1].highlights) :
                     Includes(aggResult[1].highlights[k], aggInput[i].title)}) <= 1

-----------------------------------------------------------------------------
(* QueryAnalyzer (src/src/tools/gatherContext.ts 485-861). *)

\* The words of the analyzer's tables.
\* The words of the tables of the analyzer.
AnalyzerText ==
  [ dot_config_dot |->
       <<".", "c", "o", "n", "f", "i", "g", ".">>,
    amazon_web_services |->
       <<"a", "m", "a", "z", "o", "n", " ", "w", "e", "b", " ", "s", "e",
       "r", "v", "i", "c", "e", "s">>,
    angular |->
       <<"a", "n", "g", "u", "l", "a", "r">>,
    angularjs |->
       <<"a", "n", "g", "u", "l", "a", "r", "j", "s">>,
    aws |->
       <<"a", "w", "s">>,
    benchmark |->
       <<"b", "e", "n", "c", "h", "m", "a", "r", "k">>,
    best |->
       <<"b", "e", "s", "t">>,
    breaking |->
       <<"b", "r", "e", "a", "k", "i", "n", "g">>,
    broken |->
       <<"b", "r", "o", "k", "e", "n">>,
    bug |->
       <<"b", "u", "g">>,
    change |->
       <<"c", "h", "a", "n", "g", "e">>,
    compatibility |->
       <<"c", "o", "m", "p", "a", "t", "i", "b", "i", "l", "i", "t", "y">>,
    config |->
       <<"c", "o", "n", "f", "i", "g">>,
    configure |->
       <<"c", "o", "n", "f", "i", "g", "u", "r", "e">>,
    correct |->
       <<"c", "o", "r", "r", "e", "c", "t">>,
    crash |->
       <<"c", "r", "a", "s", "h">>,
    deprecated |->
       <<"d", "e", "p", "r", "e", "c", "a", "t", "e", "d">>,
    django |->
       <<"d", "j", "a", "n", "g", "o">>,
    docker |->
       <<"d", "o", "c", "k", "e", "r">>,
    dockerfile |->
       <<"d", "o", "c", "k", "e", "r", "f", "i", "l", "e">>,
    environment |->
       <<"e", "n", "v", "i", "r", "o", "n", "m", "e", "n", "t">>,
    error |->
       <<"e", "r", "r", "o", "r">>,
    exception |->
       <<"e", "x", "c", "e", "p", "t", "i", "o", "n">>,
    fail |->
       <<"f", "a", "i", "l">>,
    failed |->
       <<"f", "a", "i", "l", "e", "d">>,
    flask |->
       <<"f", "l", "a", "s", "k">>,
    freeze |->
       <<"f", "r", "e", "e", "z", "e">>,
    git |->
       <<"g", "i", "t">>,
    github |->
       <<"g", "i", "t", "h", "u", "b">>,
    gitlab |->
       <<"g", "i", "t", "l", "a", "b">>,
    hanging |->
       <<"h", "a", "n", "g", "i", "n", "g">>,
    how |->
       <<"h", "o", "w">>,
    i |->
       <<"i">>,
    infinite |->
       <<"i", "n", "f", "i", "n", "i", "t", "e">>,
    install |->
       <<"i", "n", "s", "t", "a", "l", "l">>,
    issue |->
       <<"i", "s", "s", "u", "e">>,
    javascript |->
       <<"j", "a", "v", "a", "s", "c", "r", "i", "p", "t">>,
    js |->
       <<"j", "s">>,
    jsx |->
       <<"j", "s", "x">>,
    k8s |->
       <<"k", "8", "s">>,
    kubernetes |->
       <<"k", "u", "b", "e", "r", "n", "e", "t", "e", "s">>,
    lag |->
       <<"l", "a", "g">>,
    leak |->
       <<"l", "e", "a", "k">>,
    loop |->
       <<"l", "o", "o", "p">>,
    memory |->
       <<"m", "e", "m", "o", "r", "y">>,
    migration |->
       <<"m", "i", "g", "r", "a", "t", "i", "o", "n">>,
    mongo |->
       <<"m", "o", "n", "g", "o">>,
    mongodb |->
       <<"m", "o", "n", "g", "o", "d", "b">>,
    next |->
       <<"n", "e", "x", "t">>,
    next_js |->
       <<"n", "e", "x", "t", ".", "j", "s">>,
    nextjs |->
       <<"n", "e", "x", "t", "j", "s">>,
    node |->
       <<"n", "o", "d", "e">>,
    node_js |->
       <<"n", "o", "d", "e", ".", "j", "s">>,
    nodejs |->
       <<"n", "o", "d", "e", "j", "s">>,
    not |->
       <<"n", "o", "t">>,
    optimization |->
       <<"o", "p", "t", "i", "m", "i", "z", "a", "t", "i", "o", "n">>,
    performance |->
       <<"p", "e", "r", "f", "o", "r", "m", "a", "n", "c", "e">>,
    postgres |->
       <<"p", "o", "s", "t", "g", "r", "e", "s">>,
    postgresql |->
       <<"p", "o", "s", "t", "g", "r", "e", "s", "q", "l">>,
    practice |->
       <<"p", "r", "a", "c", "t", "i", "c", "e">>,
    prisma |->
       <<"p", "r", "i", "s", "m", "a">>,
    problem |->
       <<"p", "r", "o", "b", "l", "e", "m">>,
    proper |->
       <<"p", "r", "o", "p", "e", "r">>,
    python |->
       <<"p", "y", "t", "h", "o", "n">>,
    react |->
       <<"r", "e", "a", "c", "t">>,
    reactjs |->
       <<"r", "e", "a", "c", "t", "j", "s">>,
    recommended |->
       <<"r", "e", "c", "o", "m", "m", "e", "n", "d", "e", "d">>,
    redis |->
       <<"r", "e", "d", "i", "s">>,
    settings |->
       <<"s", "e", "t", "t", "i", "n", "g", "s">>,
    setup |->
       <<"s", "e", "t", "u", "p">>,
    should |->
       <<"s", "h", "o", "u", "l", "d">>,
    slow |->
       <<"s", "l", "o", "w">>,
    speed |->
       <<"s", "p", "e", "e", "d">>,
    stuck |->
       <<"s", "t", "u", "c", "k">>,
    to |->
       <<"t", "o">>,
    ts |->
       <<"t", "s">>,
    tsx |->
       <<"t", "s", "x">>,
    typescript |->
       <<"t", "y", "p", "e", "s", "c", "r", "i", "p", "t">>,
    upgrade |->
       <<"u", "p", "g", "r", "a", "d", "e">>,
    ver |->
       <<"v", "e", "r">>,
    vercel |->
       <<"v", "e", "r", "c", "e", "l">>,
    version |->
       <<"v", "e", "r", "s", "i", "o", "n">>,
    vite |->
       <<"v", "i", "t", "e">>,
    vitejs |->
       <<"v", "i", "t", "e", "j", "s">>,
    vue |->
       <<"v", "u", "e">>,
    vue_js |->
       <<"v", "u", "e", ".", "j", "s">>,
    vuejs |->
       <<"v", "u", "e", "j", "s">>,
    way |->
       <<"w", "a", "y">>,
    webpack |->
       <<"w", "e", "b", "p", "a", "c", "k">>,
    working |->
       <<"w", "o", "r", "k", "i", "n", "g">> ]

\* technologyPatterns
TechnologyPatterns ==
  << [tech |-> "react", aliases |-> <<AnalyzerText.react, AnalyzerText.reactjs,
      AnalyzerText.jsx, AnalyzerText.tsx>>],
     [tech |-> "next.js", aliases |-> <<AnalyzerText.next_js, AnalyzerText.nextjs,
         AnalyzerText.next, AnalyzerText.vercel>>],
     [tech |-> "vue", aliases |-> <<AnalyzerText.vue, AnalyzerText.vuejs, AnalyzerText.vue_js>>],
     [tech |-> "angular", aliases |-> <<AnalyzerText.angular, AnalyzerText.angularjs>>],
     [tech |-> "node.js", aliases |-> <<AnalyzerText.node_js, AnalyzerText.nodejs,
         AnalyzerText.node>>],
     [tech |-> "typescript", aliases |-> <<AnalyzerText.typescript, AnalyzerText.ts>>],
     [tech |-> "javascript", aliases |-> <<AnalyzerText.javascript, AnalyzerText.js>>],
     [tech |-> "vite", aliases |-> <<AnalyzerText.vite, AnalyzerText.vitejs>>],
     [tech |-> "webpack", aliases |-> <<AnalyzerText.webpack>>],
     [tech |-> "docker", aliases |-> <<AnalyzerText.docker, AnalyzerText.dockerfile>>],
     [tech |-> "prisma", aliases |-> <<AnalyzerText.prisma>>],
     [tech |-> "mongodb", aliases |-> <<AnalyzerText.mongodb, AnalyzerText.mongo>>],
     [tech |-> "postgresql", aliases |-> <<AnalyzerText.postgresql, AnalyzerText.postgres>>],
     [tech |-> "redis", aliases |-> <<AnalyzerText.redis>>],
     [tech |-> "aws", aliases |-> <<AnalyzerText.aws, AnalyzerText.amazon_web_services>>],
     [tech |-> "kubernetes", aliases |-> <<AnalyzerText.kubernetes, AnalyzerText.k8s>>],
     [tech |-> "python", aliases |-> <<AnalyzerText.python>>],
     [tech |-> "django", aliases |-> <<AnalyzerText.django>>],
     [tech |-> "flask", aliases |-> <<AnalyzerText.flask>>],
     [tech |-> "git", aliases |-> <<AnalyzerText.git, AnalyzerText.github, AnalyzerText.gitlab>>] >>

\* \d+\.\d+(?:\.\d+)?
VersionNumber ==
  <<OneOrMore(Digit), Chr("."), OneOrMore(Digit), OptGroup(<<Chr("."), OneOrMore(Digit)>>)>>

\* versionPatterns: /v?(NUMBER)/g, /(?:version|ver)\s*(NUMBER)/gi,
\* /(react\s+\d+)/gi, /(node\s+\d+)/gi, /(next\.?js\s+\d+)/gi
VersionPatterns ==
  << RegExp(<<<<Optional("v")>> \o VersionNumber>>, FALSE, <<1>>),
     RegExp(<<Lit(AnalyzerText.version) \o <<ZeroOrMore(WhiteSpace)>> \o VersionNumber,
              Lit(AnalyzerText.ver) \o <<ZeroOrMore(WhiteSpace)>> \o VersionNumber>>, TRUE,
                  <<8, 4>>),
     RegExp(<<Lit(AnalyzerText.react) \o <<OneOrMore(WhiteSpace), OneOrMore(Digit)>>>>, TRUE,
         <<0>>),
     RegExp(<<Lit(AnalyzerText.node) \o <<OneOrMore(WhiteSpace), OneOrMore(Digit)>>>>, TRUE, <<0>>),
     RegExp(<<Lit(AnalyzerText.next) \o <<Optional(".")>> \o Lit(AnalyzerText.js)
              \o <<OneOrMore(WhiteSpace), OneOrMore(Digit)>>>>, TRUE, <<0>>) >>

\* errorPatterns
ErrorPatterns ==
  << RegExp(<<Lit(AnalyzerText.error)>>, TRUE, <<0>>),
     RegExp(<<Lit(AnalyzerText.exception)>>, TRUE, <<0>>),
     RegExp(<<Lit(AnalyzerText.failed)>>, TRUE, <<0>>),
     RegExp(<<Lit(AnalyzerText.crash)>>, TRUE, <<0>>),
     RegExp(<<Lit(AnalyzerText.memory) \o <<OneOrMore(WhiteSpace)>> \o Lit(AnalyzerText.leak)>>,
         TRUE, <<0>>),
     RegExp(<<Lit(AnalyzerText.not) \o <<OneOrMore(WhiteSpace)>> \o Lit(AnalyzerText.working)>>,
         TRUE, <<0>>),
     RegExp(<<Lit(AnalyzerText.broken)>>, TRUE, <<0>>),
     RegExp(<<Lit(AnalyzerText.issue)>>, TRUE, <<0>>),
     RegExp(<<Lit(AnalyzerText.problem)>>, TRUE, <<0>>),
     RegExp(<<Lit(AnalyzerText.bug)>>, TRUE, <<0>>) >>

\* problemTypePatterns, a Map in insertion order: ProblemTypeOrder lists its
\* keys.
ProblemTypeOrder == <<CONFIGURATION, BUG_REPORT, PERFORMANCE, COMPATIBILITY, BEST_PRACTICE>>

ProblemTypePatterns ==
  (CONFIGURATION :>
       << RegExp(<<Lit(AnalyzerText.config)>>, TRUE, <<0>>),
          RegExp(<<Lit(AnalyzerText.setup)>>, TRUE, <<0>>),
          RegExp(<<Lit(AnalyzerText.install)>>, TRUE, <<0>>),
          RegExp(<<Lit(AnalyzerText.configure)>>, TRUE, <<0>>),
          RegExp(<<Lit(AnalyzerText.settings)>>, TRUE, <<0>>),
          RegExp(<<Lit(AnalyzerText.dot_config_dot)>>, TRUE, <<0>>),
          RegExp(<<Lit(AnalyzerText.environment)>>, TRUE, <<0>>) >>)
  @@ (BUG_REPORT :>
       << RegExp(<<Lit(AnalyzerText.bug)>>, TRUE, <<0>>),
          RegExp(<<Lit(AnalyzerText.error)>>, TRUE, <<0>>),
          RegExp(<<Lit(AnalyzerText.crash)>>, TRUE, <<0>>),
          RegExp(<<Lit(AnalyzerText.exception)>>, TRUE, <<0>>),
          RegExp(<<Lit(AnalyzerText.broken)>>, TRUE, <<0>>),
          RegExp(<<Lit(AnalyzerText.not) \o <<OneOrMore(WhiteSpace)>>
              \o Lit(AnalyzerText.working)>>, TRUE, <<0>>),
          RegExp(<<Lit(AnalyzerText.fail) \o <<Optional("s")>>>>, TRUE, <<0>>),
          RegExp(<<Lit(AnalyzerText.infinite) \o <<OneOrMore(WhiteSpace)>>
              \o Lit(AnalyzerText.loop)>>, TRUE, <<0>>),
          RegExp(<<Lit(AnalyzerText.hanging)>>, TRUE, <<0>>),
          RegExp(<<Lit(AnalyzerText.freeze)>>, TRUE, <<0>>),
          RegExp(<<Lit(AnalyzerText.stuck)>>, TRUE, <<0>>) >>)
  @@ (PERFORMANCE :>
       << RegExp(<<Lit(AnalyzerText.performance)>>, TRUE, <<0>>),
          RegExp(<<Lit(AnalyzerText.slow)>>, TRUE, <<0>>),
          RegExp(<<Lit(AnalyzerText.speed)>>, TRUE, <<0>>),
          RegExp(<<Lit(AnalyzerText.memory) \o <<OneOrMore(WhiteSpace)>>
              \o Lit(AnalyzerText.leak)>>, TRUE, <<0>>),
          RegExp(<<Lit(AnalyzerText.optimization)>>, TRUE, <<0>>),
          RegExp(<<Lit(AnalyzerText.lag)>>, TRUE, <<0>>),
          RegExp(<<Lit(AnalyzerText.benchmark)>>, TRUE, <<0>>) >>)
  @@ (COMPATIBILITY :>
       << RegExp(<<Lit(AnalyzerText.compatibility)>>, TRUE, <<0>>),
          RegExp(<<Lit(AnalyzerText.version)>>, TRUE, <<0>>),
          RegExp(<<Lit(AnalyzerText.upgrade)>>, TRUE, <<0>>),
          RegExp(<<Lit(AnalyzerText.migration)>>, TRUE, <<0>>),
          RegExp(<<Lit(AnalyzerText.deprecated)>>, TRUE, <<0>>),
          RegExp(<<Lit(AnalyzerText.breaking) \o <<OneOrMore(WhiteSpace)>>
              \o Lit(AnalyzerText.change)>>, TRUE, <<0>>) >>)
  @@ (BEST_PRACTICE :>
       << RegExp(<<Lit(AnalyzerText.how) \o <<OneOrMore(WhiteSpace)>> \o Lit(AnalyzerText.to)>>,
           TRUE, <<0>>),
          RegExp(<<Lit(AnalyzerText.best) \o <<OneOrMore(WhiteSpace)>>
              \o Lit(AnalyzerText.practice)>>, TRUE, <<0>>),
          RegExp(<<Lit(AnalyzerText.recommended)>>, TRUE, <<0>>),
          RegExp(<<Lit(AnalyzerText.should) \o <<OneOrMore(WhiteSpace)>>
              \o Lit(AnalyzerText.i)>>, TRUE, <<0>>),
          RegExp(<<Lit(AnalyzerText.proper) \o <<OneOrMore(WhiteSpace)>>
              \o Lit(AnalyzerText.way)>>, TRUE, <<0>>),
          RegExp(<<Lit(AnalyzerText.correct) \o <<OneOrMore(WhiteSpace)>>
              \o Lit(AnalyzerText.way)>>, TRUE, <<0>>) >>)

\* /memory|leak|performance|slow|speed|optimization/gi
PerformanceTerms == AnyOf(<<AnalyzerText.memory, AnalyzerText.leak, AnalyzerText.performance,
    AnalyzerText.slow, AnalyzerText.speed, AnalyzerText.optimization>>)

\* /setup|configure|config|install|environment/gi
ConfigurationTerms == AnyOf(<<AnalyzerText.setup, AnalyzerText.configure, AnalyzerText.config,
    AnalyzerText.install, AnalyzerText.environment>>)

RECURSIVE CountMatches(_, _)
\* The score of one problem type: matches.length of query.match(pattern)
\* summed over its patterns.
CountMatches(patterns, q) ==
  IF patterns = <<>> THEN 0
  ELSE Len(StringMatch(q, Head(patterns))) + CountMatches(Tail(patterns), q)

RECURSIVE BestTypeLastTie(_, _, _, _)
\* A loop in which a type also wins with a score equal to the best so far:
\* the mutant of BestType.
BestTypeLastTie(scores, k, bestType, bestScore) ==
  IF k > Len(ProblemTypeOrder) THEN (IF bestScore > 0 THEN bestType ELSE UNKNOWN)
  ELSE LET type == ProblemTypeOrder[k]
       IN IF scores[type] >= bestScore
          THEN BestTypeLastTie(scores, k + 1, type, scores[type])
          ELSE BestTypeLastTie(scores, k + 1, bestType, bestScore)

RECURSIVE BestType(_, _, _, _)
\* The loop over the scores, in insertion order: a type wins with a score
\* strictly above the best so far.
BestType(scores, k, bestType, bestScore) ==
  IF k > Len(ProblemTypeOrder) THEN (IF bestScore > 0 THEN bestType ELSE UNKNOWN)
  ELSE LET type == ProblemTypeOrder[k]
       IN IF scores[type] > bestScore
          THEN BestType(scores, k + 1, type, scores[type])
          ELSE BestType(scores, k + 1, bestType, bestScore)

\* The priority rules of classifyProblemType on the base scores.
Prioritize(base, q) ==
  LET performanceScore == base[PERFORMANCE]
      configScore == base[CONFIGURATION]
  IN [t \in DOMAIN base |->
        IF t = PERFORMANCE /\ performanceScore > 0 /\ Test(PerformanceTerms, q)
        THEN performanceScore + 2
        ELSE IF t = CONFIGURATION /\ configScore > 0 /\ Test(ConfigurationTerms, q)
        THEN configScore + 1
        ELSE base[t]]

\* classifyProblemType
ClassifyProblemType(q) ==
  BestType(Prioritize([t \in Range(ProblemTypeOrder) |->
                         CountMatches(ProblemTypePatterns[t], q)], q),
           1, UNKNOWN, 0)

\* extractTechnologies: the technologies with an alias the lowered query
\* includes, in table order.
ExtractTechnologies(q) ==
  LET queryLower == ToLowerCase(q)
      Found(entry) ==
        \E i \in 1..Len(entry.aliases) : Includes(queryLower, ToLowerCase(entry.aliases[i]))
      found == SelectSeq(TechnologyPatterns, Found)
  IN Unique([i \in 1..Len(found) |-> found[i].tech])

\* What one exec pushes and leaves.
ExecOnceResult(r) ==
  [pushed |-> IF r.found THEN <<r.group>> ELSE <<>>, lastIndex |-> r.lastIndex]

\* One pattern.exec(query) and no more, whatever it finds: the mutant of
\* ExecLoop.
ExecOnce(pattern, q, li) == ExecOnceResult(Exec(pattern, q, li))

RECURSIVE ExecLoop(_, _, _)
\* versions.push(match[1] || match[0]) before what the rest of the loop
\* pushes.
PushMatch(r, rest) ==
  [pushed |-> <<r.group>> \o rest.pushed, lastIndex |-> rest.lastIndex]

\* The loop after its first exec returned r.
ExecLoopAfter(pattern, q, r) ==
  IF ~r.found THEN [pushed |-> <<>>, lastIndex |-> r.lastIndex]
  ELSE PushMatch(r, ExecLoop(pattern, q, r.lastIndex))

\* while ((match = pattern.exec(query)) !== null) versions.push(match[1] ||
\* match[0]), pattern.lastIndex being li at the start: what is pushed, and
\* the lastIndex the loop leaves.
ExecLoop(pattern, q, li) == ExecLoopAfter(pattern, q, Exec(pattern, q, li))

\* [...new Set(versions)], and the lastIndex of each pattern after its loop.
VersionsOf(loops) ==
  [versions |-> Unique(Concat([i \in 1..Len(loops) |-> loops[i].pushed])),
   lastIndex |-> [i \in 1..Len(loops) |-> loops[i].lastIndex]]

\* extractVersions, li being the lastIndex of each of versionPatterns:
\* [versions, lastIndex].
ExtractVersions(q, li) ==
  VersionsOf([i \in 1..Len(VersionPatterns) |-> ExecLoop(VersionPatterns[i], q, li[i])])

\* extractErrorPatterns
ExtractErrorPatterns(q) ==
  Unique(Concat([i \in 1..Len(ErrorPatterns) |-> StringMatch(q, ErrorPatterns[i])]))

\* The edge-case test made before the generic test: the mutant of
\* AssessSpecificity.
AssessSpecificityEdgeFirst(q, technologies, versions) ==
  LET wordCount == Len(SplitWhitespace(q))
      techCount == Len(technologies)
      versionCount == Len(versions)
  IN IF techCount >= 2 \/ versionCount >= 1 \/ wordCount > 8 THEN "edge-case"
     ELSE IF wordCount < 4 /\ techCount <= 1 THEN "generic"
     ELSE "specific"

\* assessSpecificity
AssessSpecificity(q, technologies, versions) ==
  LET wordCount == Len(SplitWhitespace(q))
      techCount == Len(technologies)
      versionCount == Len(versions)
  IN IF wordCount < 4 /\ techCount <= 1 THEN "generic"
     ELSE IF techCount >= 2 \/ versionCount >= 1 \/ wordCount > 8 THEN "edge-case"
     ELSE "specific"

\* getRepositoryHints: technologies.map(tech => repoMap[tech]).filter(Boolean)
GetRepositoryHints(technologies) ==
  LET repoMap == ("react" :> "repo:facebook/react")
                 @@ ("next.js" :> "repo:vercel/next.js")
                 @@ ("vite" :> "repo:vitejs/vite")
                 @@ ("vue" :> "repo:vuejs/vue")
                 @@ ("angular" :> "repo:angular/angular")
                 @@ ("typescript" :> "repo:microsoft/TypeScript")
                 @@ ("prisma" :> "repo:prisma/prisma")
      Known(tech) == tech \in DOMAIN repoMap
      known == SelectSeq(technologies, Known)
  IN [i \in 1..Len(known) |-> repoMap[known[i]]]

\* generateGitHubStrategy. A fixed text (an exclusion, a repository hint,
\* the " OR " between hints) is one element of the text it is put into.
GenerateGitHubStrategy(q, type, technologies) ==
  LET excludePatterns ==
        <<"-author:dependabot", "-author:renovate[bot]", "-author:github-actions[bot]",
          "-label:dependencies">>
        \o (IF type = BUG_REPORT THEN <<"-label:enhancement">> ELSE <<>>)
      prioritizeTypes ==
        <<"type:issue">>
        \o (IF type = BUG_REPORT THEN <<"label:bug">>
            ELSE IF type = CONFIGURATION THEN <<"label:question", "label:help">>
            ELSE <<>>)
      repoHints == GetRepositoryHints(technologies)
      searchQuery ==
        IF Len(technologies) > 0 /\ Len(repoHints) > 0
        THEN q \o <<" ">> \o Join([i \in 1..Len(repoHints) |-> <<repoHints[i]>>], <<" OR ">>)
        ELSE q
  IN [query |-> searchQuery, excludePatterns |-> excludePatterns,
      prioritizeTypes |-> prioritizeTypes,
      qualityThreshold |-> IF type = BUG_REPORT THEN 2 ELSE 1]

\* A strategy that requires an answer for configuration only: the mutant of
\* GenerateStackOverflowStrategy.
GenerateStackOverflowStrategyConfigurationOnly(q, type, technologies) ==
  LET IsTag(tech) ==
        tech \in {"javascript", "typescript", "react", "node.js", "python", "java"}
  IN [query |-> q, tags |-> SelectSeq(technologies, IsTag),
      requireAnswered |-> type = CONFIGURATION,
      sortBy |-> IF type = BUG_REPORT THEN "activity" ELSE "relevance"]

\* generateStackOverflowStrategy
GenerateStackOverflowStrategy(q, type, technologies) ==
  LET IsTag(tech) ==
        tech \in {"javascript", "typescript", "react", "node.js", "python", "java"}
  IN [query |-> q, tags |-> SelectSeq(technologies, IsTag),
      requireAnswered |-> type = CONFIGURATION \/ type = BEST_PRACTICE,
      sortBy |-> IF type = BUG_REPORT THEN "activity" ELSE "relevance"]

\* getRelevantSubreddits: a Set in insertion order, cut to its first 5.
GetRelevantSubreddits(technologies, type) ==
  LET techSubreddits == ("react" :> <<"reactjs", "reactnative">>)
                        @@ ("next.js" :> <<"nextjs", "reactjs">>)
                        @@ ("vue" :> <<"vuejs">>)
                        @@ ("angular" :> <<"angular", "angularjs">>)
                        @@ ("node.js" :> <<"node", "nodejs">>)
                        @@ ("javascript" :> <<"javascript", "webdev">>)
                        @@ ("typescript" :> <<"typescript">>)
                        @@ ("python" :> <<"python", "learnpython">>)
                        @@ ("docker" :> <<"docker", "devops">>)
      ofTech == Concat([i \in 1..Len(technologies) |->
                          IF technologies[i] \in DOMAIN techSubreddits
                          THEN techSubreddits[technologies[i]] ELSE <<>>])
      ofType == (IF type = BUG_REPORT \/ type = CONFIGURATION
                 THEN <<"programming", "askprogramming">> ELSE <<>>)
                \o (IF type = BEST_PRACTICE THEN <<"codereview", "programming">> ELSE <<>>)
      subreddits == Unique(ofTech \o ofType)
  IN Take(IF Len(subreddits) = 0 THEN <<"programming", "webdev", "askprogramming">>
          ELSE subreddits, 5)

\* generateRedditStrategy
GenerateRedditStrategy(q, type, technologies) ==
  [query |-> q, subreddits |-> GetRelevantSubreddits(technologies, type),
   excludeFlairs |-> <<"Showcase", "Career", "Show and Tell", "Beginner Question">>
                     \o (IF type = BEST_PRACTICE THEN <<"Rant">> ELSE <<>>),
   minEngagement |-> IF type = BUG_REPORT THEN 5 ELSE 10]

\* generateSearchStrategies
GenerateSearchStrategies(q, type, technologies) ==
  [github |-> GenerateGitHubStrategy(q, type, technologies),
   stackoverflow |-> GenerateStackOverflowStrategy(q, type, technologies),
   reddit |-> GenerateRedditStrategy(q, type, technologies)]

\* The lastIndex of every RegExp object of a new QueryAnalyzer.
FreshLastIndex == [i \in 1..Len(VersionPatterns) |-> 0]

\* The QueryAnalysis analyze returns.
QueryAnalysis(q, type, technologies, versions, errorPatterns) ==
  [originalQuery |-> q, problemType |-> type, technologies |-> technologies,
   versions |-> versions, errorPatterns |-> errorPatterns,
   specificity |-> AssessSpecificity(q, technologies, versions),
   searchStrategies |-> GenerateSearchStrategies(q, type, technologies)]

\* analyze, extracted being what extractVersions gave.
AnalyzeWith(q, extracted) ==
  [analysis |-> QueryAnalysis(q, ClassifyProblemType(q), ExtractTechnologies(q),
                              extracted.versions, ExtractErrorPatterns(q)),
   lastIndex |-> extracted.lastIndex]

\* analyze(query) on an instance whose versionPatterns stand at li: the
\* QueryAnalysis, and the lastIndex the call leaves. String.prototype.match
\* sets the lastIndex of errorPatterns and problemTypePatterns to 0 before
\* it searches and leaves it 0, and the two expressions classifyProblemType
\* tests are literals evaluated anew at each call.
AnalyzeOn(q, li) == AnalyzeWith(q, ExtractVersions(q, li))

\* "react performance slow rendering"
SlowRenderingQuery ==
  <<"r", "e", "a", "c", "t", " ", "p", "e", "r", "f", "o", "r", "m", "a", "n", "c", "e",
    " ", "s", "l", "o", "w", " ", "r", "e", "n", "d", "e", "r", "i", "n", "g">>

\* The queries analyzed.
AnalyzerQueries ==
  { <<>>,
    SlowRenderingQuery,
    <<"r", "e", "a", "c", "t">>,
    <<"R", "e", "a", "c", "t", " ", "1", "8">>,
    <<"R", "e", "a", "c", "t", " ", "1", "8", " ", "c", "r", "a", "s", "h">>,
    <<"v", "1", ".", "2", ".", "3">>,
    <<"v", "e", "r", "s", "i", "o", "n", " ", "2", ".", "0", " ", "u", "p",
    "g", "r", "a", "d", "e">>,
    <<"v", "e", "r", " ", "3", ".", "1">>,
    <<"n", "o", "d", "e", " ", "1", "6", " ", "m", "e", "m", "o", "r", "y", " ", "l", "e", "a",
        "k">>,
    <<"n", "e", "x", "t", ".", "j", "s", " ", "1", "3", " ", "c", "o", "n",
    "f", "i", "g">>,
    <<"n", "e", "x", "t", "j", "s", " ", "1", "4", " ", "s", "e", "t", "u",
    "p">>,
    <<"h", "o", "w", " ", "t", "o", " ", "i", "n", "s", "t", "a", "l", "l", " ", "d", "o", "c",
        "k", "e", "r">>,
    <<"v", "u", "e", " ", "b", "u", "g">>,
    <<"s", "l", "o", "w", " ", "p", "e", "r", "f", "o", "r", "m", "a", "n",
    "c", "e">>,
    <<"e", "r", "r", "o", "r", " ", "E", "r", "r", "o", "r">>,
    <<"f", "a", "i", "l", "s">>,
    <<"n", "o", "t", " ", " ", "w", "o", "r", "k", "i", "n", "g">>,
    <<"t", "y", "p", "e", "s", "c", "r", "i", "p", "t", " ", "r", "e", "a",
    "c", "t", " ", "n", "e", "x", "t", ".", "j", "s">>,
    <<"r", "e", "a", "c", "t", " ", "1", "8", " ", "r", "e", "a", "c", "t", " ", "1", "7">>,
    <<"1", ".", "2", " ", "1", ".", "2">>,
    <<"b", "e", "s", "t", " ", "p", "r", "a", "c", "t", "i", "c", "e">>,
    <<"s", "h", "o", "u", "l", "d", " ", "i", " ", "u", "p", "g", "r", "a",
    "d", "e">>,
    <<"w", "e", "b", "p", "a", "c", "k", " ", ".", "c", "o", "n", "f", "i",
    "g", ".", " ", "s", "e", "t", "t", "i", "n", "g", "s">>,
    <<"p", "y", "t", "h", "o", "n", " ", "f", "l", "a", "s", "k", " ", "d",
    "j", "a", "n", "g", "o", " ", "r", "e", "d", "i", "s">>,
    <<"w", "h", "a", "t", " ", "i", "s", " ", "t", "h", "e", " ", "p", "r",
    "o", "p", "e", "r", " ", "w", "a", "y", " ", "t", "o", " ", "c", "o", "n",
    "f", "i", "g", "u", "r", "e", " ", "v", "i", "t", "e", " ", "f", "o", "r",
    " ", "a", " ", "m", "o", "n", "o", "r", "e", "p", "o">>,
    <<"i", "s", "s", "u", "e">>,
    <<"k", "8", "s">>,
    <<"b", "r", "o", "k", "e", "n", " ", "b", "u", "i", "l", "d", " ", "f",
    "a", "i", "l", "e", "d">>,
    <<"i", "n", "f", "i", "n", "i", "t", "e", " ", "l", "o", "o", "p">>,
    <<"j", "s">>,
    <<" ">> }

\* The analyze calls made on one instance.
MaxCalls == 4

\* new QueryAnalyzer()
AnalyzerInit ==
  /\ lastIndex = FreshLastIndex
  /\ analyzed = <<>>
  /\ analysis = <<>>
  /\ calls = 0

\* analyzer.analyze(q)
Analyze(q) ==
  /\ calls < MaxCalls
  /\ LET out == AnalyzeOn(q, lastIndex)
     IN /\ analysis' = <<out.analysis>>
        /\ lastIndex' = out.lastIndex
  /\ analyzed' = <<q>>
  /\ calls' = calls + 1

InitAnalyze == RankIdle /\ AggIdle /\ AnalyzerInit /\ GatherIdle
NextAnalyze ==
  /\ \E q \in AnalyzerQueries : Analyze(q)
  /\ UNCHANGED <<rankVars, aggVars, gatherVars>>
SpecAnalyze == InitAnalyze /\ [][NextAnalyze]_vars

\* C10: analyze gives a query the analysis a new instance gives it, whatever
\* the instance analyzed before: no lastIndex is carried from call to call.
C10_AnalyzeIsStateless ==
  analysis # <<>> =>
    /\ analysis[1] = AnalyzeOn(analyzed[1], FreshLastIndex).analysis
    /\ lastIndex = FreshLastIndex

\* C10's case: a later call on the instance, whose query matches version
\* and error expressions.
C10_Witness ==
  /\ calls >= 2
  /\ analysis[1].versions # <<>>
  /\ analysis[1].errorPatterns # <<>>
  /\ analysis[1].problemType # UNKNOWN

\* The score of every problem type for q after the performance +2 and the
\* configuration +1.
BoostedScores(q) ==
  Prioritize([t \in Range(ProblemTypeOrder) |-> CountMatches(ProblemTypePatterns[t], q)],
             q)

\* The place of a problem type in the fixed order.
OrderOf(t) == CHOOSE k \in 1..Len(ProblemTypeOrder) : ProblemTypeOrder[k] = t

\* C13: the problem type of an analysis is unknown exactly when every boosted
\* score is 0; otherwise it is a type of the highest boosted score, the
\* earliest of them in the order configuration, bug, performance,
\* compatibility, best-practice. "react performance slow rendering" is a
\* performance query.
C13_ClassifiesByHighestScore ==
  analysis # <<>> =>
    /\ (analysis[1].problemType = UNKNOWN)
         <=> (\A t \in Range(ProblemTypeOrder) : BoostedScores(analyzed[1])[t] = 0)
    /\ analysis[1].problemType # UNKNOWN =>
         \A t \in Range(ProblemTypeOrder) :
           /\ BoostedScores(analyzed[1])[t]
                <= BoostedScores(analyzed[1])[analysis[1].problemType]
           /\ OrderOf(t) < OrderOf(analysis[1].problemType) =>
                BoostedScores(analyzed[1])[t]
                  < BoostedScores(analyzed[1])[analysis[1].problemType]
    /\ analyzed[1] = SlowRenderingQuery => analysis[1].problemType = PERFORMANCE

\* C13's case: compatibility and best-practice tie at the highest score,
\* which is not 0, and the analysis names compatibility.
C13_Witness ==
  /\ analysis # <<>>
  /\ analysis[1].problemType = COMPATIBILITY
  /\ BoostedScores(analyzed[1])[COMPATIBILITY] > 0
  /\ BoostedScores(analyzed[1])[BEST_PRACTICE]
       = BoostedScores(analyzed[1])[COMPATIBILITY]

\* C14: the specificity of an analysis is one of three bands: generic when
\* the query has fewer than 4 words and at most 1 technology, even with a
\* version detected; otherwise edge-case when it has 2 technologies or more,
\* a version, or more than 8 words; otherwise specific.
C14_SpecificityBands ==
  analysis # <<>> =>
    LET words == Len(SplitWhitespace(analyzed[1]))
        techs == Len(analysis[1].technologies)
        versions == Len(analysis[1].versions)
        band == analysis[1].specificity
    IN /\ band \in {"generic", "edge-case", "specific"}
       /\ (band = "generic") <=> (words < 4 /\ techs <= 1)
       /\ (band = "edge-case")
            <=> (/\ ~(words < 4 /\ techs <= 1)
                 /\ (techs >= 2 \/ versions >= 1 \/ words > 8))
       /\ (band = "specific")
            <=> (/\ ~(words < 4 /\ techs <= 1)
                 /\ ~(techs >= 2 \/ versions >= 1 \/ words > 8))

\* C14's case: a query of fewer than 4 words with one technology and a
\* version detected was analyzed, and it is generic.
C14_Witness ==
  /\ analysis # <<>>
  /\ Len(SplitWhitespace(analyzed[1])) < 4
  /\ Len(analysis[1].technologies) = 1
  /\ analysis[1].versions # <<>>
  /\ analysis[1].specificity = "generic"

\* The strategies without the query each of them carries.
Derivation(strategies) ==
  [github |-> [excludePatterns |-> strategies.github.excludePatterns,
               prioritizeTypes |-> strategies.github.prioritizeTypes,
               qualityThreshold |-> strategies.github.qualityThreshold],
   stackoverflow |-> [tags |-> strategies.stackoverflow.tags,
                      requireAnswered |-> strategies.stackoverflow.requireAnswered,
                      sortBy |-> strategies.stackoverflow.sortBy],
   reddit |-> [subreddits |-> strategies.reddit.subreddits,
               excludeFlairs |-> strategies.reddit.excludeFlairs,
               minEngagement |-> strategies.reddit.minEngagement]]

\* C25: in the analysis of a query, the github strategy prioritizes label:bug
\* and excludes label:enhancement exactly when the problem type is bug, the
\* stackoverflow strategy requires an answer exactly when it is configuration
\* or best practice, the reddit strategy excludes the flair Rant exactly when
\* it is best practice, and the strategies, but for the query they carry,
\* are those of the problem type and the technologies whatever the query.
C25_StrategiesFollowProblemType ==
  analysis # <<>> =>
    LET type == analysis[1].problemType
        strategies == analysis[1].searchStrategies
    IN /\ ("label:bug" \in Range(strategies.github.prioritizeTypes))
            <=> (type = BUG_REPORT)
       /\ ("-label:enhancement" \in Range(strategies.github.excludePatterns))
            <=> (type = BUG_REPORT)
       /\ strategies.stackoverflow.requireAnswered
            <=> (type \in {CONFIGURATION, BEST_PRACTICE})
       /\ ("Rant" \in Range(strategies.reddit.excludeFlairs))
            <=> (type = BEST_PRACTICE)
       /\ Derivation(strategies) =
            Derivation(GenerateSearchStrategies(<<>>, type, analysis[1].technologies))

\* C25's case: a query was analyzed as best practice, by an analyzer that
\* had analyzed another query before.
C25_Witness ==
  /\ analysis # <<>>
  /\ analysis[1].problemType = BEST_PRACTICE
  /\ analysis[1].searchStrategies.stackoverflow.requireAnswered
  /\ "Rant" \in Range(analysis[1].searchStrategies.reddit.excludeFlairs)
  /\ calls >= 2

-----------------------------------------------------------------------------
(* The cache (src/unnamed/part_000), promises, the adapters' search and    *)
(* gatherDeveloperContext (src/src/tools/gatherContext.ts 130-278).        *)
(*                                                                         *)
(* A bundle is an object of the heap: heap[ref]. The cache and a caller    *)
(* hold references. A cache entry is [key, data, timestamp, hits]. The key *)
(* is the record generateKey hashes.                                       *)
(***************************************************************************)

\* The requests served, one at a time.
MaxRequests == 2

\* The position of key in the Map, or 0.
CacheIndex(c, key) ==
  IF \E i \in 1..Len(c) : c[i].key = key
  THEN CHOOSE i \in 1..Len(c) : c[i].key = key
  ELSE 0

\* The Map without its entry at position i.
CacheDelete(c, i) == SubSeq(c, 1, i - 1) \o SubSeq(c, i + 1, Len(c))

\* A get whose hit gives the entry the timestamp of the hit: the mutant of
\* CacheGet.
CacheGetRefreshing(c, key, time, lifetime) ==
  LET i == CacheIndex(c, key)
  IN IF i = 0 THEN [cache |-> c, data |-> <<>>]
     ELSE IF time - c[i].timestamp > lifetime
     THEN [cache |-> CacheDelete(c, i), data |-> <<>>]
     ELSE [cache |-> Append(CacheDelete(c, i),
                            [c[i] EXCEPT !.hits = @ + 1, !.timestamp = time]),
           data |-> <<c[i].data>>]

\* cache.get(params) at instant time, lifetime being this.ttl: [cache (the
\* Map it leaves), data (<<>> for null)]. A hit deletes the entry and sets it
\* again, with one more hit and the timestamp it had.
CacheGet(c, key, time, lifetime) ==
  LET i == CacheIndex(c, key)
  IN IF i = 0 THEN [cache |-> c, data |-> <<>>]
     ELSE IF time - c[i].timestamp > lifetime
     THEN [cache |-> CacheDelete(c, i), data |-> <<>>]
     ELSE [cache |-> Append(CacheDelete(c, i), [c[i] EXCEPT !.hits = @ + 1]),
           data |-> <<c[i].data>>]

\* A set that never deletes an entry: the mutant of CacheSet.
CacheSetKeepingAll(c, size, key, data, time) ==
  LET i == CacheIndex(c, key)
      entry == [key |-> key, data |-> data, timestamp |-> time, hits |-> 0]
  IN IF i = 0 THEN Append(c, entry) ELSE [c EXCEPT ![i] = entry]

\* cache.set(params, data) at instant time, size being this.maxSize: the Map
\* it leaves. The first key of the Map is deleted when the Map is full and
\* has not the key; Map.prototype.set leaves a key it has where it was.
CacheSet(c, size, key, data, time) ==
  LET i == CacheIndex(c, key)
      room == IF Len(c) >= size /\ i = 0 THEN Tail(c) ELSE c
      entry == [key |-> key, data |-> data, timestamp |-> time, hits |-> 0]
  IN IF i = 0 THEN Append(room, entry) ELSE [room EXCEPT ![i] = entry]

\* cache.clear()
CacheClear(c) == <<>>

\* The order in which gatherDeveloperContext pushes its search promises.
SourceOrder == <<"stackoverflow", "github", "reddit">>

\* options.sources || [...]
DefaultSources == <<"stackoverflow", "github", "reddit">>

\* cacheKey
CacheKey(o) ==
  [query |-> o.query,
   sources |-> IF o.sources # <<>> THEN o.sources[1] ELSE DefaultSources,
   maxResults |-> IF NumberOrZero(o.maxResults) # 0 THEN o.maxResults[1] ELSE 5,
   depth |-> IF o.depth # <<>> THEN o.depth[1] ELSE "quick"]

\* StackOverflowAdapter.search: its catch logs the error and returns [].
StackOverflowSearch(fetch) ==
  IF fetch.status = "failed" THEN Fulfilled(<<>>) ELSE Fulfilled(fetch.results)

\* GitHubRestAdapter.search: its catch calls handleAPIError, which throws.
GitHubSearch(fetch) ==
  IF fetch.status = "failed" THEN Rejected ELSE Fulfilled(fetch.results)

\* RedditAdapter.search: its catch logs the error and returns [].
RedditSearch(fetch) ==
  IF fetch.status = "failed" THEN Fulfilled(<<>>) ELSE Fulfilled(fetch.results)

\* withFallback(primaryFn, fallbackValue, source)
WithFallback(p, fallbackValue) ==
  IF p.state = "rejected" THEN Fulfilled(fallbackValue) ELSE p

\* The promise a source's .catch is attached to (the .then before it logs
\* and passes the results on).
SearchPromise(s, fetch) ==
  IF s = "stackoverflow" THEN StackOverflowSearch(fetch)
  ELSE IF s = "github" THEN WithFallback(GitHubSearch(fetch), <<>>)
  ELSE RedditSearch(fetch)

\* .catch(error => { incompleteSources.push(source); return []; })
Catch(p) == IF p.state = "rejected" THEN Fulfilled(<<>>) ELSE p

\* The promise of a source with no catch at any level, rejected when
\* performSearch threw: the mutant of SourceTask.
UnprotectedTask(s, fetch) ==
  IF fetch.status = "failed" THEN Rejected ELSE Fulfilled(fetch.results)

\* The promise gatherDeveloperContext pushes for source s.
SourceTask(s, fetch) == Catch(SearchPromise(s, fetch))

\* Fulfilled as soon as one search promise is: the mutant of PromiseAll.
PromiseAny(ts) ==
  IF \E s \in Sources : ts[s].state = "rejected" THEN "rejected"
  ELSE IF \E s \in Sources : ts[s].state = "fulfilled" THEN "fulfilled"
  ELSE "pending"

\* Promise.all(searchPromises): rejected once a promise is, fulfilled when
\* every promise is.
PromiseAll(ts) ==
  IF \E s \in Sources : ts[s].state = "rejected" THEN "rejected"
  ELSE IF \E s \in Sources : ts[s].state = "pending" THEN "pending"
  ELSE "fulfilled"

\* The results of the first search promise only: the mutant of Flat.
FlatFirst(ts) ==
  LET Issued(s) == ts[s].state # "none"
      issued == SelectSeq(SourceOrder, Issued)
  IN IF issued = <<>> THEN <<>> ELSE ts[issued[1]].value

\* searchResults.flat()
Flat(ts) == Concat([i \in 1..Len(SourceOrder) |-> ts[SourceOrder[i]].value])

\* incompleteSources.length > 0 ? incompleteSources : undefined
IncompleteOrUndefined(incomplete) ==
  IF Len(incomplete) > 0 THEN <<incomplete>> ELSE <<>>

\* emptyResult
EmptyResult(elapsedMs, incomplete) ==
  [summary |-> Txt.NoResults, highlights |-> <<>>, citations |-> <<>>,
   snippets |-> <<>>,
   stats |-> [elapsedMs |-> elapsedMs, sourceCounts |-> <<>>, cacheHits |-> 0,
              incompleteSources |-> IncompleteOrUndefined(incomplete)]]

\* enhancedResult
EnhancedResult(result, a) ==
  result @@ [queryAnalysis |-> [problemType |-> a.problemType,
                                technologies |-> a.technologies,
                                specificity |-> a.specificity]]

\* JSON.stringify(result, null, 2) of a bundle: a member that is undefined
\* is left out, and the text holds the bundle as it is at that moment.
JsonStringify(bundle) ==
  LET Citation(c) ==
        IF c.version = <<>> THEN [f \in DOMAIN c \ {"version"} |-> c[f]]
        ELSE [c EXCEPT !.version = c.version[1]]
      stats ==
        IF bundle.stats.incompleteSources = <<>>
        THEN [f \in DOMAIN bundle.stats \ {"incompleteSources"} |-> bundle.stats[f]]
        ELSE [bundle.stats EXCEPT !.incompleteSources = bundle.stats.incompleteSources[1]]
  IN [f \in DOMAIN bundle |->
        IF f = "stats" THEN stats
        ELSE IF f = "citations"
        THEN [i \in 1..Len(bundle.citations) |-> Citation(bundle.citations[i])]
        ELSE bundle[f]]

\* What the handler returns when gatherDeveloperContext resolved.
ToolResult(bundle) ==
  [kind |-> "result", content |-> <<[type |-> "text", text |-> JsonStringify(bundle)]>>]

\* What the handler returns from its catch.
ToolError ==
  [kind |-> "error",
   content |-> <<[type |-> "text",
                  text |-> [error |-> "Failed to gather context"]]>>]

\* The handler threw: its caller gets no payload.
ToolThrown == [kind |-> "thrown", content |-> <<>>]

\* The name of the tool, and the sources of GatherContextSchema.
ToolName == "gather_developer_context"
SchemaSources == {"stackoverflow", "github"}
SchemaDefaultSources == <<"stackoverflow", "github">>

\* Whether GatherContextSchema.parse accepts the arguments: query is
\* required, and sources is an array of the enum when it is there.
SchemaAccepts(arguments) ==
  /\ arguments.query # <<>>
  /\ arguments.sources # <<>> => Range(arguments.sources[1]) \subseteq SchemaSources

\* args, with the defaults of the schema, as the options handed to
\* gatherDeveloperContext.
SchemaParse(arguments) ==
  [query |-> arguments.query[1],
   sources |-> IF arguments.sources = <<>> THEN <<SchemaDefaultSources>>
               ELSE arguments.sources,
   maxResults |-> <<5>>, depth |-> <<"quick">>]

\* The query of the requests, the tool names and arguments of a tool call,
\* and the options of a direct call of gatherDeveloperContext.
GatherQuery == Sample.react_bug
ToolNames == {ToolName, "list_repositories"}
ToolArguments ==
  { [query |-> <<GatherQuery>>, sources |-> <<>>],
    [query |-> <<GatherQuery>>, sources |-> <<<<"github">>>>],
    [query |-> <<GatherQuery>>, sources |-> <<<<"reddit">>>>],
    [query |-> <<>>, sources |-> <<>>] }
DirectOptions ==
  { [query |-> GatherQuery, sources |-> <<>>, maxResults |-> <<>>, depth |-> <<>>],
    [query |-> GatherQuery, sources |-> <<<<"github">>>>, maxResults |-> <<>>,
     depth |-> <<>>] }

\* Date.now() - startTime of a request.
RequestElapsed == {3}

\* The results a source returns when it has some.
SourceResults(s) ==
  IF s = "stackoverflow"
  THEN << NormalizedResult(Sample.hooks_crash, 1, "stackoverflow", Sample.alice, 400, <<20>>,
                           120, Sample.react, <<>>, <<Sample.hooks>>, <<>>, <<TRUE>>, <<60>>),
          NormalizedResult(Sample.setup_guide, 2, "stackoverflow", Sample.alice, 100, <<>>, 0,
                           Sample.a_bug, <<>>, <<Sample.react_bug>>, <<>>, <<FALSE>>, <<>>) >>
  ELSE IF s = "github"
  THEN << NormalizedResult(Sample.React_bug_in_hooks, 3, "github", Sample.alice, 3, <<>>, 10,
                           Sample.a_bug, <<CodeSnippet(Sample.code_useState)>>, <<Sample.react>>,
                           <<Sample.v18>>, <<TRUE>>, <<5>>) >>
  ELSE << NormalizedResult(Sample.setup_guide, 4, "reddit", Sample.alice, 40, <<>>, -3,
                           <<>>, <<>>, <<>>, <<>>, <<>>, <<-4>>) >>

\* What performSearch of source s may do.
FetchOutcomes(s) == {FetchFailed, FetchReturned(<<>>), FetchReturned(SourceResults(s))}

\* The state a request starts from: what the request before left but for
\* the cache, the heap and the analyzer.
NewRequest ==
  /\ pc \in {"idle", "done"}
  /\ requests < MaxRequests
  /\ requests' = requests + 1
  /\ query' = <<>>
  /\ problemType' = <<>>
  /\ results' = <<>>
  /\ ranked' = <<>>
  /\ rankPc' = "idle"
  /\ aggInput' = <<>>
  /\ aggIncomplete' = <<>>
  /\ aggResult' = <<>>
  /\ fetched' = [s \in Sources |-> NotFetched]
  /\ incompleteSources' = <<>>
  /\ UNCHANGED <<filters, now, maxSize, ttl, cacheLog, retryVars>>

\* gatherDeveloperContext(o) up to its await, called by who: a cache hit
\* returns the cached object, its stats rewritten; a miss analyzes the query
\* and issues a search promise for each source asked for.
GatherDeveloperContext(o, who) ==
  LET got == CacheGet(cache, CacheKey(o), now, ttl)
      sources == IF o.sources # <<>> THEN o.sources[1] ELSE DefaultSources
  IN /\ caller' = who
     /\ options' = <<o>>
     /\ cache' = got.cache
     /\ IF got.data # <<>>
        THEN \E elapsedMs \in RequestElapsed :
               LET ref == got.data[1]
                   hit == [heap[ref] EXCEPT !.stats.cacheHits = @ + 1,
                                            !.stats.elapsedMs = elapsedMs]
               IN /\ heap' = [heap EXCEPT ![ref] = hit]
                  /\ outcome' = <<[state |-> "resolved", ref |-> ref]>>
                  /\ response' = IF who = "tool" THEN <<ToolResult(hit)>> ELSE <<>>
                  /\ tasks' = [s \in Sources |-> NotIssued]
                  /\ pc' = "done"
                  /\ UNCHANGED analyzerVars
        ELSE LET out == AnalyzeOn(o.query, lastIndex)
             IN /\ analysis' = <<out.analysis>>
                /\ lastIndex' = out.lastIndex
                /\ analyzed' = <<o.query>>
                /\ calls' = calls + 1
                /\ tasks' = [s \in Sources |->
                               IF s \in Range(sources) THEN Pending ELSE NotIssued]
                /\ outcome' = <<>>
                /\ response' = <<>>
                /\ pc' = "fetching"
                /\ UNCHANGED heap

\* The handler of CallToolRequestSchema up to its await: it throws for
\* another tool name and for arguments the schema rejects, both before its
\* try, and calls gatherDeveloperContext otherwise.
CallTool(name, arguments) ==
  /\ NewRequest
  /\ IF name # ToolName \/ ~SchemaAccepts(arguments)
     THEN /\ response' = <<ToolThrown>>
          /\ request' = <<[name |-> name, arguments |-> arguments]>>
          /\ outcome' = <<>>
          /\ caller' = "tool"
          /\ options' = <<>>
          /\ tasks' = [s \in Sources |-> NotIssued]
          /\ pc' = "done"
          /\ UNCHANGED <<cache, heap, analyzerVars>>
     ELSE /\ request' = <<[name |-> name, arguments |-> arguments]>>
          /\ GatherDeveloperContext(SchemaParse(arguments), "tool")

\* gatherDeveloperContext called by another module.
CallGather(o) ==
  /\ NewRequest
  /\ request' = <<>>
  /\ GatherDeveloperContext(o, "direct")

\* The search of source s settles, performSearch having done fetch: the
\* promise pushed for s is fulfilled, by its .catch when the search promise
\* is rejected.
SourceSettles(s, fetch) ==
  /\ pc = "fetching"
  /\ tasks[s].state = "pending"
  /\ tasks' = [tasks EXCEPT ![s] = SourceTask(s, fetch)]
  /\ incompleteSources' = IF SearchPromise(s, fetch).state = "rejected"
                          THEN Append(incompleteSources, s)
                          ELSE incompleteSources
  /\ fetched' = [fetched EXCEPT ![s] = fetch]
  /\ UNCHANGED <<rankVars, aggVars, analyzerVars, cacheVars, retryVars, heap, pc,
                 caller, options, request, outcome, response, requests>>

\* The rest of gatherDeveloperContext, after await Promise.all, and of the
\* handler when it is the caller.
Resume ==
  /\ pc = "fetching"
  /\ PromiseAll(tasks) # "pending"
  /\ pc' = "done"
  /\ UNCHANGED <<filters, analyzerVars, now, maxSize, ttl, cacheLog, retryVars, caller,
                 options, request, tasks, fetched, incompleteSources, requests>>
  /\ IF PromiseAll(tasks) = "rejected"
     THEN /\ outcome' = <<[state |-> "rejected", ref |-> 0]>>
          /\ response' = IF caller = "tool" THEN <<ToolError>> ELSE <<>>
          /\ UNCHANGED <<query, problemType, results, ranked, rankPc, aggVars, cache, heap>>
     ELSE \E elapsedMs \in RequestElapsed :
       LET allResults == Flat(tasks)
           ref == Len(heap) + 1
       IN /\ outcome' = <<[state |-> "resolved", ref |-> ref]>>
          /\ IF Len(allResults) = 0
             THEN LET emptyResult == EmptyResult(elapsedMs, incompleteSources)
                  IN /\ heap' = Append(heap, emptyResult)
                     /\ response' = IF caller = "tool" THEN <<ToolResult(emptyResult)>>
                                    ELSE <<>>
                     /\ UNCHANGED <<query, problemType, results, ranked, rankPc, aggVars,
                                    cache>>
             ELSE LET type == analysis[1].problemType
                      rankedResults ==
                        RankResults(RankerQuery(options[1].query), <<type>>, filters,
                                    allResults)
                      incomplete == IncompleteOrUndefined(incompleteSources)
                      result == AggregateResults(rankedResults, elapsedMs, 0, incomplete)
                      enhancedResult == EnhancedResult(result, analysis[1])
                  IN /\ query' = options[1].query
                     /\ problemType' = <<type>>
                     /\ results' = allResults
                     /\ ranked' = rankedResults
                     /\ rankPc' = "ranked"
                     /\ aggInput' = rankedResults
                     /\ aggIncomplete' = incomplete
                     /\ aggResult' = <<result>>
                     /\ heap' = Append(heap, enhancedResult)
                     /\ cache' = CacheSet(cache, maxSize, CacheKey(options[1]), ref, now)
                     /\ response' = IF caller = "tool" THEN <<ToolResult(enhancedResult)>>
                                    ELSE <<>>

\* More than the ttl passes between two requests: every entry of the cache
\* is now older than the ttl.
TtlElapses ==
  /\ pc = "done"
  /\ \E i \in 1..Len(cache) : now - cache[i].timestamp <= ttl
  /\ now' = now + ttl + 1
  /\ UNCHANGED <<rankVars, aggVars, analyzerVars, cache, maxSize, ttl, cacheLog,
                 requestVars, retryVars>>

Init ==
  /\ query = <<>>
  /\ problemType = <<>>
  /\ filters \in FilterConfigs
  /\ results = <<>>
  /\ ranked = <<>>
  /\ rankPc = "idle"
  /\ AggIdle
  /\ AnalyzerInit
  /\ GatherIdle

Next ==
  \/ \E name \in ToolNames, arguments \in ToolArguments : CallTool(name, arguments)
  \/ \E o \in DirectOptions : CallGather(o)
  \/ \E s \in Sources : \E fetch \in FetchOutcomes(s) : SourceSettles(s, fetch)
  \/ Resume
  \/ TtlElapses

Spec == Init /\ [][Next]_vars

-----------------------------------------------------------------------------
(* Claims on gatherDeveloperContext and the handler of tool calls. *)

\* The sources a search promise was pushed for.
Requested == {s \in Sources : tasks[s].state # "none"}

\* The request under way is over and its promise resolved with a bundle.
Resolved == pc = "done" /\ outcome # <<>> /\ outcome[1].state = "resolved"

\* C3: the bundle lists in stats.incompleteSources every requested source
\* whose fetch failed.
C3_FailedSourcesAreListed ==
  Resolved =>
    \A s \in Sources :
      fetched[s].status = "failed" =>
        /\ heap[outcome[1].ref].stats.incompleteSources # <<>>
        /\ s \in Range(heap[outcome[1].ref].stats.incompleteSources[1])

\* C4: when every requested source failed or returned nothing, the request
\* resolves with a bundle of no highlights, citations and snippets whose
\* summary says that no results were found.
C4_TotalFailureResolvesEmpty ==
  (pc = "done" /\ Requested # {} /\ \A s \in Requested : fetched[s].results = <<>>) =>
    /\ Resolved
    /\ heap[outcome[1].ref].summary = Txt.NoResults
    /\ heap[outcome[1].ref].highlights = <<>>
    /\ heap[outcome[1].ref].citations = <<>>
    /\ heap[outcome[1].ref].snippets = <<>>

\* C4's case: the three sources were asked, one failed and one returned
\* nothing, none returned a result, and the request is over.
C4_Witness ==
  /\ pc = "done"
  /\ Requested = Sources
  /\ \A s \in Sources : fetched[s].results = <<>>
  /\ \E s \in Sources : fetched[s].status = "failed"
  /\ \E s \in Sources : fetched[s].status = "returned"
  /\ outcome # <<>>

\* C5: when a requested source failed and another returned results, the
\* request resolves and stats.sourceCounts counts the results of each source
\* that returned some, and no other.
C5_OneFailureDoesNotAbort ==
  (/\ pc = "done"
   /\ \E s \in Sources : fetched[s].status = "failed"
   /\ \E s \in Sources : fetched[s].results # <<>>) =>
    /\ Resolved
    /\ heap[outcome[1].ref].stats.sourceCounts =
         [s \in {t \in Sources : fetched[t].results # <<>>} |-> Len(fetched[s].results)]

\* C5's case: stackoverflow failed, github and reddit returned results, and
\* the request is over.
C5_Witness ==
  /\ pc = "done"
  /\ fetched["stackoverflow"].status = "failed"
  /\ fetched["github"].results # <<>>
  /\ fetched["reddit"].results # <<>>
  /\ outcome # <<>>

\* C6: nothing is ranked, aggregated or returned while a search promise of
\* the request is pending, and the list that is ranked holds the results of
\* every requested source.
C6_RankAfterAllSettled ==
  /\ (rankPc = "ranked" \/ aggResult # <<>> \/ outcome # <<>>) =>
       \A s \in Sources : tasks[s].state # "pending"
  /\ (pc = "done" /\ Requested # {}) =>
       results = Concat([i \in 1..Len(SourceOrder) |-> fetched[SourceOrder[i]].results])

\* C6's case: the three sources were asked and each returned results, which
\* were ranked and aggregated.
C6_Witness ==
  /\ pc = "done"
  /\ Requested = Sources
  /\ \A s \in Sources : fetched[s].results # <<>>
  /\ rankPc = "ranked"
  /\ Len(ranked) = Len(results)
  /\ aggResult # <<>>

\* C7: the handler of tool calls gives its caller a payload, a result or a
\* structured error, for every request: it never throws.
C7_HandlerNeverRaises ==
  response # <<>> => response[1].kind \in {"result", "error"}

-----------------------------------------------------------------------------
(* An LRUCache of its own (src/unnamed/part_000): the calls get, set and   *)
(* clear made on it, and the time that passes between them. cacheLog keeps *)
(* each call: [op, key, data, at (Date.now() of the call), result (what    *)
(* get returned, <<>> for null), held and left (the keys of the Map before *)
(* and after the call)].                                                   *)
(***************************************************************************)

\* The largest maxSize of the cache, the number of calls and waits made on
\* it, and the params the calls are made with.
MaxCacheSize == 2
MaxCacheOps == 5
CacheParams == {"a", "b", "c"}

\* The keys of the Map.
CacheKeys(c) == {c[i].key : i \in 1..Len(c)}

\* new LRUCache(size), ttlSeconds being its default.
CacheInit ==
  /\ cache = <<>>
  /\ now = 0
  /\ maxSize \in 1..MaxCacheSize
  /\ ttl = CacheTtlSeconds * 1000
  /\ cacheLog = <<>>

CacheCall(op, key, data, result, after) ==
  [op |-> op, key |-> key, data |-> data, at |-> now, result |-> result,
   held |-> CacheKeys(cache), left |-> CacheKeys(after)]

\* cache.get(key)
Get(key) ==
  /\ Len(cacheLog) < MaxCacheOps
  /\ cache' = CacheGet(cache, key, now, ttl).cache
  /\ cacheLog' = Append(cacheLog,
                        CacheCall("get", key, 0, CacheGet(cache, key, now, ttl).data,
                                  CacheGet(cache, key, now, ttl).cache))
  /\ UNCHANGED <<now, maxSize, ttl>>

\* cache.set(key, data): the data of the n-th call is n.
Set(key) ==
  /\ Len(cacheLog) < MaxCacheOps
  /\ cache' = CacheSet(cache, maxSize, key, Len(cacheLog) + 1, now)
  /\ cacheLog' = Append(cacheLog, CacheCall("set", key, Len(cacheLog) + 1, <<>>,
                                  CacheSet(cache, maxSize, key, Len(cacheLog) + 1, now)))
  /\ UNCHANGED <<now, maxSize, ttl>>

\* cache.clear()
Clear ==
  /\ Len(cacheLog) < MaxCacheOps
  /\ cache' = CacheClear(cache)
  /\ cacheLog' = Append(cacheLog, CacheCall("clear", "", 0, <<>>, CacheClear(cache)))
  /\ UNCHANGED <<now, maxSize, ttl>>

\* The ttl passes: an entry stored now is as old as it may be, an entry
\* stored a ttl ago is too old.
TtlPasses ==
  /\ Len(cacheLog) < MaxCacheOps
  /\ now' = now + ttl
  /\ cacheLog' = Append(cacheLog, CacheCall("wait", "", 0, <<>>, cache))
  /\ UNCHANGED <<cache, maxSize, ttl>>

InitCache == RankIdle /\ AggIdle /\ AnalyzerIdle /\ CacheInit /\ RequestIdle /\ RetryIdle

NextCache ==
  /\ \/ \E key \in CacheParams : Get(key)
     \/ \E key \in CacheParams : Set(key)
     \/ Clear
     \/ TtlPasses
  /\ UNCHANGED <<rankVars, aggVars, analyzerVars, requestVars, retryVars>>

SpecCache == InitCache /\ [][NextCache]_vars

\* The latest call of the log, the calls before call n that are a set of
\* key, and the calls before call n that are a use of key: a set, or a get
\* that returned a value.
LatestCall == cacheLog[Len(cacheLog)]
SetsBefore(key, n) ==
  {m \in 1..(n - 1) : cacheLog[m].op = "set" /\ cacheLog[m].key = key}
UsesBefore(key, n) ==
  {m \in 1..(n - 1) :
     /\ cacheLog[m].key = key
     /\ \/ cacheLog[m].op = "set"
        \/ cacheLog[m].op = "get" /\ cacheLog[m].result # <<>>}
Latest(ns) == CHOOSE m \in ns : \A k \in ns : k <= m

\* C21: a get returns a value only when the latest set of its key, whose
\* data it returns, was made at most ttl milliseconds before, whatever gets
\* were made since; a get whose key was last set more than ttl milliseconds
\* before returns null and leaves the cache without the key.
C21_EntriesExpire ==
  (cacheLog # <<>> /\ LatestCall.op = "get") =>
    LET call == LatestCall
        sets == SetsBefore(call.key, Len(cacheLog))
    IN /\ call.result # <<>> =>
            /\ sets # {}
            /\ call.at - cacheLog[Latest(sets)].at <= ttl
            /\ call.result = <<cacheLog[Latest(sets)].data>>
       /\ (sets # {} /\ call.at - cacheLog[Latest(sets)].at > ttl) =>
            /\ call.result = <<>>
            /\ call.key \notin CacheKeys(cache)

\* C21's case: a key was set, a get made a ttl later returned its value, and
\* a get made another ttl later found the entry, returned null and removed
\* it.
C21_Witness ==
  /\ Len(cacheLog) >= 3
  /\ LatestCall.op = "get"
  /\ LatestCall.result = <<>>
  /\ LatestCall.key \in LatestCall.held
  /\ LatestCall.key \notin CacheKeys(cache)
  /\ \E m \in UsesBefore(LatestCall.key, Len(cacheLog)) :
       /\ cacheLog[m].op = "get"
       /\ cacheLog[m].at > cacheLog[Latest(SetsBefore(LatestCall.key, Len(cacheLog)))].at
       /\ LatestCall.at - cacheLog[m].at <= ttl

\* C22: when set adds a key to a full cache, the one entry that is removed
\* is of the key whose latest use, a set or a get that returned a value, is
\* the oldest.
C22_EvictsLeastRecentlyUsed ==
  (/\ cacheLog # <<>>
   /\ LatestCall.op = "set"
   /\ LatestCall.key \notin LatestCall.held
   /\ Cardinality(LatestCall.held) >= maxSize) =>
    \E evicted \in LatestCall.held :
      /\ LatestCall.held \ LatestCall.left = {evicted}
      /\ \A other \in LatestCall.held :
           Latest(UsesBefore(evicted, Len(cacheLog)))
             <= Latest(UsesBefore(other, Len(cacheLog)))

\* C28: the cache never holds more entries than its maxSize.
C28_SizeWithinCapacity == Len(cache) <= maxSize

\* C28's case: a key was set in a cache that was full and had not the key,
\* after a clear and a get were made, and the cache is full again.
C28_Witness ==
  /\ cacheLog # <<>>
  /\ LatestCall.op = "set"
  /\ LatestCall.key \notin LatestCall.held
  /\ Cardinality(LatestCall.held) = maxSize
  /\ Len(cache) = maxSize
  /\ \E m \in 1..Len(cacheLog) : cacheLog[m].op = "clear"
  /\ \E m \in 1..Len(cacheLog) : cacheLog[m].op = "get"

-----------------------------------------------------------------------------
(* withRetry (src/unnamed/part_001 29-54).                                 *)
(*                                                                         *)
(* A failure is [isError (instanceof Error), message (its message, or the  *)
(* value thrown when it is a string)]. retryTrace keeps what happened      *)
(* since the call: [event, attempt, failure, delay, value], event being    *)
(* "call" (fn is invoked), "fail" (fn rejected), "wait" (setTimeout of     *)
(* delay milliseconds), "return" or "reject" (how withRetry settled).      *)
(***************************************************************************)

\* The defaults of maxRetries and initialDelay.
DefaultMaxRetries == 3
InitialDelay == 1000

Failure(isError, message) == [isError |-> isError, message |-> message]

\* error instanceof Error && error.message.includes('429'), taken as true of
\* every failure: the mutant of IsRateLimit.
IsAnyFailure(error) == TRUE

\* error instanceof Error && error.message.includes('429')
IsRateLimit(error) == error.isError /\ Includes(error.message, <<"4", "2", "9">>)

\* attempt <= maxRetries: the mutant of MoreAttempts.
OneMoreAttempt(n, limit) == n <= limit

\* The test of the loop: attempt < maxRetries
MoreAttempts(n, limit) == n < limit

RECURSIVE Pow2(_)
\* Math.pow(2, n)
Pow2(n) == IF n = 0 THEN 1 ELSE 2 * Pow2(n - 1)

\* initialDelay * Math.pow(2, attempt) + Math.random() * 1000, jitter being
\* the part of Math.random() * 1000 in whole milliseconds.
Delay(n, jitter) == InitialDelay * Pow2(n) + jitter

\* lastError || new Error('Max retries exceeded')
LastErrorOr(err) ==
  IF err # <<>> THEN err[1]
  ELSE Failure(TRUE, <<"M", "a", "x", " ", "r", "e", "t", "r", "i", "e", "s", " ",
                       "e", "x", "c", "e", "e", "d", "e", "d">>)

\* An event of the trace.
Event(event, n, failure, delay, value) ==
  [event |-> event, attempt |-> n, failure |-> failure, delay |-> delay,
   value |-> value]

\* The maxRetries withRetry is called with, what fn returns when it succeeds,
\* the failures of fn that are a rate-limit signal and those that are not
\* (an Error of another message, and a thrown string, which is no Error
\* whatever it holds), and the values of the jitter.
RetryLimits == 0..DefaultMaxRetries
FnValues == {1}
RateLimitFailures ==
  { Failure(TRUE, <<"4", "2", "9">>),
    Failure(TRUE, <<"H", "T", "T", "P", " ", "4", "2", "9", " ", "s", "l", "o", "w">>) }
OtherFailures ==
  { Failure(TRUE, <<"H", "T", "T", "P", " ", "5", "0", "0">>),
    Failure(TRUE, <<"4", "2", " ", "9">>),
    Failure(FALSE, <<"4", "2", "9">>) }
Jitters == {0, 999}

\* The loop from its test on, attempt being n: fn is invoked, or the loop is
\* left and lastError is thrown.
RetryLoop(n, limit, err, trace) ==
  /\ attempt' = n
  /\ IF MoreAttempts(n, limit)
     THEN /\ retryPc' = "calling"
          /\ retryOutcome' = <<>>
          /\ retryTrace' = Append(trace, Event("call", n, <<>>, 0, <<>>))
     ELSE /\ retryPc' = "done"
          /\ retryOutcome' = <<[state |-> "rejected", failure |-> <<LastErrorOr(err)>>,
                                value |-> <<>>]>>
          /\ retryTrace' = Append(trace, Event("reject", n, <<LastErrorOr(err)>>, 0, <<>>))

\* withRetry(fn, limit) up to its first await.
WithRetry(limit) ==
  /\ retryPc = "idle"
  /\ maxRetries' = limit
  /\ lastError' = <<>>
  /\ RetryLoop(0, limit, <<>>, <<>>)

\* The promise of fn is fulfilled with value: withRetry returns it.
FnReturns(value) ==
  /\ retryPc = "calling"
  /\ retryPc' = "done"
  /\ retryOutcome' = <<[state |-> "resolved", failure |-> <<>>, value |-> <<value>>]>>
  /\ retryTrace' = Append(retryTrace, Event("return", attempt, <<>>, 0, <<value>>))
  /\ UNCHANGED <<maxRetries, attempt, lastError>>

\* The promise of fn is rejected with error: the catch of the loop keeps it
\* and waits before the next attempt when it is a rate-limit signal, and
\* throws it otherwise.
FnThrows(error) ==
  /\ retryPc = "calling"
  /\ lastError' = <<error>>
  /\ IF IsRateLimit(error)
     THEN \E jitter \in Jitters :
            /\ retryPc' = "waiting"
            /\ retryOutcome' = <<>>
            /\ retryTrace' = retryTrace
                 \o << Event("fail", attempt, <<error>>, 0, <<>>),
                       Event("wait", attempt, <<>>, Delay(attempt, jitter), <<>>) >>
     ELSE /\ retryPc' = "done"
          /\ retryOutcome' = <<[state |-> "rejected", failure |-> <<error>>,
                                value |-> <<>>]>>
          /\ retryTrace' = retryTrace
               \o << Event("fail", attempt, <<error>>, 0, <<>>),
                     Event("reject", attempt, <<error>>, 0, <<>>) >>
  /\ UNCHANGED <<maxRetries, attempt>>

\* The timer of the wait fires: attempt++ and the test of the loop.
TimerFires ==
  /\ retryPc = "waiting"
  /\ RetryLoop(attempt + 1, maxRetries, lastError, retryTrace)
  /\ UNCHANGED <<maxRetries, lastError>>

InitRetry == RankIdle /\ AggIdle /\ AnalyzerIdle /\ CacheIdle /\ RequestIdle /\ RetryIdle

NextRetry ==
  /\ \/ \E limit \in RetryLimits : WithRetry(limit)
     \/ \E value \in FnValues : FnReturns(value)
     \/ \E error \in RateLimitFailures \cup OtherFailures : FnThrows(error)
     \/ TimerFires
  /\ UNCHANGED <<rankVars, aggVars, analyzerVars, cacheVars, requestVars>>

SpecRetry == InitRetry /\ [][NextRetry]_vars

\* The promise of fn settles, and a timer that was set fires.
RetryFairness ==
  /\ WF_vars(/\ \/ \E value \in FnValues : FnReturns(value)
                \/ \E error \in RateLimitFailures \cup OtherFailures : FnThrows(error)
             /\ UNCHANGED <<rankVars, aggVars, analyzerVars, cacheVars, requestVars>>)
  /\ WF_vars(/\ TimerFires
             /\ UNCHANGED <<rankVars, aggVars, analyzerVars, cacheVars, requestVars>>)

SpecRetryFair == SpecRetry /\ RetryFairness

\* The events of the trace of a kind, in order.
EventsOf(kind) == SelectSeq(retryTrace, LAMBDA e : e.event = kind)

\* C23: fn is never invoked more than maxRetries times; when every attempt
\* that was made failed with a rate-limit signal, fn was invoked maxRetries
\* times and withRetry rejects with the failure of the last attempt; and a
\* call of withRetry settles.
C23_Bounded ==
  /\ Len(EventsOf("call")) <= maxRetries
  /\ (/\ retryPc = "done"
      /\ Len(EventsOf("fail")) = Len(EventsOf("call"))
      /\ Len(EventsOf("fail")) > 0
      /\ \A n \in 1..Len(retryTrace) :
           retryTrace[n].event = "fail" => retryTrace[n].failure[1] \in RateLimitFailures) =>
       /\ Len(EventsOf("call")) = maxRetries
       /\ retryOutcome[1].state = "rejected"
       /\ retryOutcome[1].failure = EventsOf("fail")[Len(EventsOf("fail"))].failure
C23_RetryIsBoundedAndSettles ==
  /\ []C23_Bounded
  /\ (retryPc # "idle") ~> (retryPc = "done")

\* C23's case: withRetry was called with the default maxRetries, the three
\* attempts failed with a rate-limit signal, the last with another failure
\* than the first, and withRetry rejected.
C23_Witness ==
  /\ retryPc = "done"
  /\ maxRetries = DefaultMaxRetries
  /\ Len(EventsOf("call")) = DefaultMaxRetries
  /\ Len(EventsOf("fail")) = DefaultMaxRetries
  /\ \A n \in 1..Len(retryTrace) :
       retryTrace[n].event = "fail" => retryTrace[n].failure[1] \in RateLimitFailures
  /\ EventsOf("fail")[1].failure # EventsOf("fail")[DefaultMaxRetries].failure
  /\ retryOutcome[1].state = "rejected"

\* C27: a failure of fn that is no rate-limit signal is the last thing fn
\* did: withRetry has rejected with it, and the trace holds no wait and no
\* call after it.
C27_OtherFailureIsNotRetried ==
  \A n \in 1..Len(retryTrace) :
    (retryTrace[n].event = "fail" /\ retryTrace[n].failure[1] \in OtherFailures) =>
      /\ retryPc = "done"
      /\ retryOutcome = <<[state |-> "rejected", failure |-> retryTrace[n].failure,
                           value |-> <<>>]>>
      /\ Len(retryTrace) = n + 1
      /\ retryTrace[n + 1].event = "reject"

\* C27's case: the first attempt failed with a rate-limit signal, and the
\* second, made after the wait, with a thrown string that holds 429, which
\* withRetry rejected with.
C27_Witness ==
  /\ retryPc = "done"
  /\ Len(EventsOf("fail")) = 2
  /\ EventsOf("fail")[1].failure[1] \in RateLimitFailures
  /\ EventsOf("fail")[2].failure[1] = Failure(FALSE, <<"4", "2", "9">>)
  /\ Len(EventsOf("wait")) = 1
  /\ retryOutcome[1].state = "rejected"

-----------------------------------------------------------------------------
(* rankResults on a result and its accepted peer, for queries that share   *)
(* nothing with them. *)

\* Queries of words that are in no title, content or tag of the results:
\* with one space, with white space before, after and repeated.
PeerQueries ==
  RankQueries
  \cup { <<"v", "u", "e", " ", "c", "l", "i">>,
         <<" ", "v", "u", "e">>,
         <<"v", "u", "e", " ">>,
         <<"v", "u", "e", " ", "\t", " ", "c", "l", "i">> }

\* Results that are not accepted, isAccepted being false or undefined.
PeerPool ==
  { NormalizedResult(Sample.React_bug_in_hooks, 1, source, Sample.alice, createdAt, <<>>,
                     score, Sample.a_bug, <<>>, <<Sample.react>>, <<>>, isAccepted,
                     voteCount) :
      source \in Sources, createdAt \in {3, 400}, score \in {-3, 120},
      isAccepted \in {<<>>, <<FALSE>>}, voteCount \in {<<>>, <<60>>} }

\* The result with isAccepted true.
Accepted(r) == [r EXCEPT !.isAccepted = <<TRUE>>]

\* A ranker and a result with its accepted peer, in either order.
PeersInit ==
  /\ query \in PeerQueries
  /\ problemType \in {<<>>} \cup {<<t>> : t \in ProblemType}
  /\ filters \in FilterConfigs
  /\ results \in {<<r, Accepted(r)>> : r \in PeerPool}
                 \cup {<<Accepted(r), r>> : r \in PeerPool}
  /\ ranked = <<>>
  /\ rankPc = "ready"

InitPeers == PeersInit /\ AggIdle /\ AnalyzerIdle /\ GatherIdle
SpecPeers == InitPeers /\ [][NextRank]_vars

\* C29: of a result and its accepted peer, rankResults puts the accepted
\* first, with a finalScore strictly above the other's.
C29_AcceptedPeerRanksFirst ==
  rankPc = "ranked" =>
    /\ ranked[1].isAccepted = <<TRUE>>
    /\ ranked[2].isAccepted # <<TRUE>>
    /\ ranked[1].finalScore > ranked[2].finalScore

\* C29's case: the accepted peer was given last and is ranked first, the
\* other having isAccepted false, under the weights of best practice.
C29_Witness ==
  /\ rankPc = "ranked"
  /\ problemType = <<BEST_PRACTICE>>
  /\ results[1].isAccepted = <<FALSE>>
  /\ results[2].isAccepted = <<TRUE>>
  /\ ranked[1].isAccepted = <<TRUE>>
  /\ ranked[1].finalScore > ranked[2].finalScore

\* The words of a query: its maximal runs of characters that are not white
\* space, in lower case.
RECURSIVE WordsFrom(_, _)
WordsFrom(s, cur) ==
  IF s = <<>> THEN (IF cur = <<>> THEN {} ELSE {cur})
  ELSE IF Head(s) \in WhiteSpace
       THEN (IF cur = <<>> THEN {} ELSE {cur}) \cup WordsFrom(Tail(s), <<>>)
       ELSE WordsFrom(Tail(s), Append(cur, Head(s)))
WordsOf(q) == WordsFrom(ToLowerCase(q), <<>>)

\* No word of the query is in the title or the content of the result, and
\* no tag of the result is in the query or holds it.
SharesNothing(q, r) ==
  /\ \A word \in WordsOf(q) :
       /\ ~Includes(ToLowerCase(r.title), word)
       /\ ~Includes(ToLowerCase(r.content), word)
  /\ \A k \in 1..Len(r.tags) :
       /\ ~Includes(ToLowerCase(q), ToLowerCase(r.tags[k]))
       /\ ~Includes(ToLowerCase(r.tags[k]), ToLowerCase(q))

\* C30: a ranked result that shares nothing with the query has relevance 0.
C30_NothingSharedIsRelevanceZero ==
  rankPc = "ranked" =>
    \A k \in 1..Len(ranked) :
      SharesNothing(query, ranked[k]) => ranked[k].relevanceScore = 0

-----------------------------------------------------------------------------
(* Further claims on gatherDeveloperContext and the handler of tool calls. *)

\* C24: a call of the tool gather_developer_context with a query and no
\* sources argument searches stackoverflow, github and reddit, and a call
\* whose sources argument names reddit is not refused.
C24_ToolSearchesEverySourceByDefault ==
  (/\ request # <<>>
   /\ request[1].name = ToolName
   /\ request[1].arguments.query # <<>>) =>
    /\ (request[1].arguments.sources = <<>> /\ pc = "fetching") => Requested = Sources
    /\ (/\ request[1].arguments.sources # <<>>
        /\ "reddit" \in Range(request[1].arguments.sources[1])) =>
         response # <<ToolThrown>>

\* C26: the bundle a request returned to a caller of gatherDeveloperContext
\* is not changed by the step that follows, a later request included.
C26_ReturnedBundleIsNotChanged ==
  [][(Resolved /\ caller = "direct") =>
       heap'[outcome[1].ref] = heap[outcome[1].ref]]_vars

=============================================================================
